---- MODULE Spec2Model ----
(***************************************************************************)
(* Admission control of the gateway: the external-user quota middleware    *)
(* (middleware/external_user_auth.go), the operator quota endpoint         *)
(* (controller/external_user_manage.go) and the in-memory channel rate     *)
(* limiter (service/channel_rate_limit.go).                                *)
(***************************************************************************)
EXTENDS Integers, Sequences, FiniteSets, TLC

(***************************************************************************)
(* Bounds of the model.                                                    *)
(***************************************************************************)
MaxTime == 2      \* the wall clock runs over 0..MaxTime seconds
MonthLen == 2     \* seconds per calendar month of the model's clock
MaxLimit == 2     \* largest explicit X-Channel-Quota-Limit header value
MaxMinute == 2    \* the rate limiter's clock runs over minutes 0..MaxMinute
DayLen == 2       \* minutes per day of the rate limiter's clock
MaxRate == 2      \* largest RPM / RPD limit of a channel

(***************************************************************************)
(* Program constants.                                                      *)
(***************************************************************************)
DefaultMonthlyQuota == 30
StatusOK == 200
StatusUnauthorized == 401
StatusTooManyRequests == 429
StatusInternalServerError == 500
StatusServiceUnavailable == 503

VARIABLES
  phase,          \* "boot" before InitExternalUserAuth, "run" after
  RedisURL,       \* externalUserConfig.RedisURL / constant.ExternalUserRedisURL
  RedisToken,     \* externalUserConfig.RedisToken
  MonthlyQuota,   \* externalUserConfig.MonthlyQuota
  Enabled,        \* externalUserConfig.Enabled
  useLocalRedis,  \* externalUserConfig.useLocalRedis
  ExternalUserAuthEnabled,  \* constant.ExternalUserAuthEnabled
  now,            \* time.Now().Unix()
  userStore,      \* store keys "user:<id>"
  quotaStore,     \* store keys "quota:<id>" and "quota:<id>:channel:<c>"
  log,            \* what the last operation was given and what it answered
  watch,          \* the quota key whose history is followed
  hist            \* the history of the watched key

mwVars == <<phase, RedisURL, RedisToken, MonthlyQuota, Enabled, useLocalRedis,
            ExternalUserAuthEnabled, now, userStore, quotaStore, log, watch, hist>>

VARIABLES
  channelRateLimitStore,  \* key -> *ChannelRateLimitInfo, Nil when absent
  channelRateLimitMutex,  \* the goroutine holding the write lock, "" if free
  minuteNow,              \* time.Now() of the rate limiter, in minutes
  goroutine,              \* position and locals of each concurrent request
  policy,                 \* the channel's limits in the concurrent scenario
  rlLog,                  \* the last rate limiter operation and its result
  rlHist                  \* history of the rate record for the scenarios

rlVars == <<channelRateLimitStore, channelRateLimitMutex, minuteNow, goroutine,
            policy, rlLog, rlHist>>

\* The middleware's requests in flight.
VARIABLES
  inflight,   \* each handler's position in ExternalUserAuth and its local quota
  admitted,   \* how many requests were admitted after a debit
  resetNext   \* loop index of the reset of all key slots, -1 outside the loop

qcVars == <<inflight, admitted, resetNext>>

vars == <<mwVars, rlVars, qcVars>>

(***************************************************************************)
(* Values.                                                                 *)
(***************************************************************************)
Nil == [nil |-> TRUE]

UserIds == {"u1", "u2"}
ChannelIds == {"", "c1"}

\* time.Now().Format("2006-01"): the calendar month a second falls in
MonthKey(t) == t \div MonthLen

\* strings.HasPrefix(redisURL, "redis://")
HasRedisPrefix(url) == url \in {"redis://ok", "redis://down", "redis://%bad"}

\* a key that leaves the channel out
QuotaKey_IgnoreChannel(userId, channelId) == "quota:" \o userId

\* key of a quota record
QuotaKey(userId, channelId) ==
  IF channelId = "" THEN "quota:" \o userId
  ELSE "quota:" \o userId \o ":channel:" \o channelId

\* the channels of the key scenarios: one more channel id
KeyChannelIds == ChannelIds \cup {"c2"}

\* the user ids of the keys: the stored users and the empty id of a
\* credential that carries an e-mail only
KeyUserIds == UserIds \cup {""}

QuotaKeys == {QuotaKey(u, c) : u \in KeyUserIds, c \in KeyChannelIds}

UserQuota(used, month, reset) ==
  [UsedCount |-> used, MonthKey |-> month, LastResetAt |-> reset]

ExternalUserData(id, email, username, vip, until) ==
  [ID |-> id, Email |-> email, Username |-> username, IsVIP |-> vip,
   VIPExpiresAt |-> until]


(***************************************************************************)
(* Bearer credentials.  A credential is what the three-segment split, the  *)
(* base64 decoding and the JSON parse make of it: the number of            *)
(* dot-separated segments, whether the middle segment decodes and parses,  *)
(* the exp claim (absent, a JSON number, or another JSON type) and the     *)
(* userId and email claims ("" when absent or not a string).               *)
(***************************************************************************)
Token(segs, dec, expKind, exp, userId, email) ==
  [empty |-> FALSE, segs |-> segs, dec |-> dec, expKind |-> expKind,
   exp |-> exp, userId |-> userId, email |-> email]

NoToken == [empty |-> TRUE, segs |-> 0, dec |-> FALSE, expKind |-> "none",
            exp |-> 0, userId |-> "", email |-> ""]

ExpAt == MaxTime - 2      \* the exp claim of the expiring credential
VipUntil == MaxTime - 1   \* the stored VIP expiry of user u2

TokU1 == Token(3, TRUE, "none", 0, "u1", "alice@x")
TokU1Exp == Token(3, TRUE, "num", ExpAt, "u1", "alice@x")
TokU2 == Token(3, TRUE, "none", 0, "u2", "bob@x")
TokTwoSegs == Token(2, TRUE, "none", 0, "u1", "alice@x")
TokUndecodable == Token(3, FALSE, "num", 0, "u1", "alice@x")
TokNoIdentity == Token(3, TRUE, "none", 0, "", "")

TokU1ExpStr == Token(3, TRUE, "str", ExpAt, "u1", "alice@x")
TokUnknownAdmin == Token(3, TRUE, "none", 0, "u9", "admin@x")
TokExpNoIdentity == Token(3, TRUE, "num", ExpAt, "", "")
TokMailCarol == Token(3, TRUE, "none", 0, "", "carol@x")
TokMailDave == Token(3, TRUE, "none", 0, "", "dave@x")

Tokens == {NoToken, TokU1, TokU1Exp, TokU1ExpStr, TokU2, TokTwoSegs,
           TokUndecodable, TokNoIdentity, TokUnknownAdmin, TokExpNoIdentity}

\* the credentials that name a user of the store
UserTokens == {TokU1, TokU2}

\* strings.Split(email, "@")[0] on the e-mail addresses of the model
LocalPart(email) ==
  CASE email = "alice@x" -> "alice"
    [] email = "bob@x" -> "bob"
    [] email = "admin@x" -> "admin"
    [] email = "carol@x" -> "carol"
    [] email = "dave@x" -> "dave"
    [] OTHER -> email

\* X-Channel-Quota-Limit: absent or not a number (ok = FALSE), or a number
LimitHeaders == {[ok |-> FALSE, n |-> 0]} \cup
                {[ok |-> TRUE, n |-> n] : n \in -1 .. MaxLimit}

\* X-Channel-Quota-Enabled
EnabledHeaders == {"", "false"}


(***************************************************************************)
(* Store transports.  A call on the native client answers "ok" or fails    *)
(* ("neterr").  A call on the REST transport fails in client.Do or in      *)
(* reading the body ("neterr"), or answers a body that is no JSON object   *)
(* ("garbage"), or a non-2xx status whose JSON body carries no result      *)
(* ("errjson"), or a 200 with the stored value in the result field ("ok"). *)
(***************************************************************************)
ReadResponses(local) ==
  IF local THEN {"ok", "neterr"} ELSE {"ok", "neterr", "errjson", "garbage"}

WriteResponses(local) ==
  IF local THEN {"ok", "neterr"} ELSE {"ok", "neterr", "non200"}

\* getUserFromRedis / getUserFromUpstash: the record, or Nil for an error
getUserFromRedis(userId, resp) ==
  IF ~Enabled THEN Nil
  ELSE IF useLocalRedis
       THEN IF resp = "ok" /\ userId \in DOMAIN userStore
            THEN userStore[userId] ELSE Nil
       ELSE \* getUserFromUpstash
            IF resp \in {"neterr", "garbage"} THEN Nil
            ELSE IF resp = "errjson" THEN Nil      \* result == nil
            ELSE IF userId \in DOMAIN userStore
                 THEN userStore[userId] ELSE Nil

\* getChannelQuotaFromUpstash: the status code of the response is not read
getChannelQuotaFromUpstash(userId, channelId, resp) ==
  LET key == QuotaKey(userId, channelId)
      fresh == UserQuota(0, MonthKey(now), 0)
  IN IF resp \in {"neterr", "garbage"} THEN [err |-> TRUE, quota |-> fresh]
     ELSE IF resp = "ok" /\ key \in DOMAIN quotaStore /\ quotaStore[key] # Nil
          THEN [err |-> FALSE, quota |-> quotaStore[key]]
          ELSE [err |-> FALSE, quota |-> fresh]

\* getUserChannelQuota
getUserChannelQuota(userId, channelId, resp) ==
  LET key == QuotaKey(userId, channelId)
      fresh == UserQuota(0, MonthKey(now), 0)
  IN IF ~Enabled THEN [err |-> FALSE, quota |-> fresh]
     ELSE IF useLocalRedis
          THEN IF resp # "ok" THEN [err |-> TRUE, quota |-> fresh]
               ELSE IF key \in DOMAIN quotaStore /\ quotaStore[key] # Nil
                    THEN [err |-> FALSE, quota |-> quotaStore[key]]
                    ELSE [err |-> FALSE, quota |-> fresh]   \* redis.Nil
          ELSE getChannelQuotaFromUpstash(userId, channelId, resp)

\* saveUserChannelQuota / saveChannelQuotaToUpstash: error flag and the store
saveUserChannelQuota(userId, channelId, quota, resp) ==
  LET key == QuotaKey(userId, channelId)
  IN IF ~Enabled THEN [err |-> TRUE, store |-> quotaStore]
     ELSE IF resp = "ok"
          THEN [err |-> FALSE, store |-> [quotaStore EXCEPT ![key] = quota]]
          ELSE [err |-> TRUE, store |-> quotaStore]

\* setUserToUpstash, lines 701-721: only a failure of the HTTP client is an
\* error; the status code of the response is not read
setUserToUpstash(userId, userData, resp) ==
  IF resp = "neterr" THEN [err |-> TRUE, store |-> userStore]
  ELSE IF resp = "ok"
       THEN [err |-> FALSE, store |-> [userStore EXCEPT ![userId] = userData]]
       ELSE [err |-> FALSE, store |-> userStore]

\* an expiry test with one second of grace
Expired_Grace(tok) == tok.expKind = "num" /\ tok.exp + 1 < now

\* lines 270-274: exp is enforced when it decodes as a JSON number
Expired(tok) == tok.expKind = "num" /\ tok.exp < now

\* a shape test that counts the segments and does not decode the payload
Malformed_SegmentsOnly(tok) == tok.segs # 3

\* lines 252-266: three segments, a base64 payload, a JSON object
Malformed(tok) == tok.segs # 3 \/ ~tok.dec

\* lines 279-281: neither a user id nor an e-mail in the claims
MissingIdentity(tok) == tok.userId = "" /\ tok.email = ""

\* a resolution that looks for the identity before it looks at the expiry
verifyExternalJWT_IdentityFirst(tok, resp) ==
  IF Malformed(tok) THEN [err |-> "malformed", user |-> Nil, reads |-> 0]
  ELSE IF MissingIdentity(tok)
       THEN [err |-> "noidentity", user |-> Nil, reads |-> 0]
  ELSE IF Expired(tok)
       THEN [err |-> "expired", user |-> Nil, reads |-> 0]
  ELSE LET found == getUserFromRedis(tok.userId, resp)
       IN IF found # Nil THEN [err |-> "", user |-> found, reads |-> 1]
          ELSE [err |-> "", reads |-> 1,
                user |-> ExternalUserData(tok.userId, tok.email,
                           IF tok.email # "" THEN LocalPart(tok.email) ELSE "",
                           FALSE, 0)]

\* verifyExternalJWT: the error ("" for none), the user context and the
\* number of user-record reads
verifyExternalJWT(tok, resp) ==
  IF Malformed(tok) THEN [err |-> "malformed", user |-> Nil, reads |-> 0]
  ELSE IF Expired(tok)
       THEN [err |-> "expired", user |-> Nil, reads |-> 0]
  ELSE IF MissingIdentity(tok)
       THEN [err |-> "noidentity", user |-> Nil, reads |-> 0]
  ELSE LET found == getUserFromRedis(tok.userId, resp)
       IN IF found # Nil THEN [err |-> "", user |-> found, reads |-> 1]
          ELSE [err |-> "", reads |-> 1,
                user |-> ExternalUserData(tok.userId, tok.email,
                           IF tok.email # "" THEN LocalPart(tok.email) ELSE "",
                           FALSE, 0)]


(***************************************************************************)
(* The middleware's answer to one request.                                 *)
(***************************************************************************)
\* a handler that goes on to the next one after a rejection too
HandsOff_Always(status) == TRUE

\* c.Next() is called on the admitting paths (lines 169, 184, 199, 240);
\* every rejection aborts and returns
HandsOff(status) == status = StatusOK

Answer(status, reason, qstatus, used, total, remaining, vip, userId, userReads, quotaReads, quotaWrites, store) ==
  [status |-> status, reason |-> reason, qstatus |-> qstatus, used |-> used,
   total |-> total, remaining |-> remaining, vip |-> vip, userId |-> userId,
   next |-> HandsOff(status), userReads |-> userReads,
   quotaReads |-> quotaReads, quotaWrites |-> quotaWrites, store |-> store]

\* quotaLimit of lines 138-143: the header's number, else the global quota
ParseQuotaLimit(limitHdr) ==
  IF limitHdr.ok THEN limitHdr.n ELSE MonthlyQuota

\* a rollover that changes the month label and keeps the count
NormalizeMonth_KeepCount(quota) ==
  IF quota.MonthKey # MonthKey(now)
  THEN UserQuota(quota.UsedCount, MonthKey(now), now)
  ELSE quota

\* lines 211-216: month rollover of the record that was read
NormalizeMonth(quota) ==
  IF quota.MonthKey # MonthKey(now)
  THEN UserQuota(0, MonthKey(now), now)
  ELSE quota

\* a comparison that lets one request more through
QuotaExhausted_Strict(quota, quotaLimit) == quota.UsedCount > quotaLimit

\* line 218: the limit comparison
QuotaExhausted(quota, quotaLimit) == quota.UsedCount >= quotaLimit

\* a bypass that looks at the VIP flag and not at its expiry
IsBypassUser_FlagOnly(userData) ==
  userData.IsVIP \/ userData.Username = "admin"

\* a bypass for the administrator only
IsBypassUser_AdminOnly(userData) == userData.Username = "admin"

\* lines 156-159: VIP or administrator
IsBypassUser(userData) ==
  \/ userData.IsVIP /\ userData.VIPExpiresAt > now
  \/ userData.Username = "admin"

\* a save whose failure aborts the request
AfterSave_Abort(err) ==
  IF err THEN StatusInternalServerError ELSE StatusOK

\* lines 226-229: the save's error is logged and the request goes on
AfterSave(err) == StatusOK

\* a rejection that saves the record it normalised
RejectedStore_SavesRollover(userId, channelId, quota) ==
  [quotaStore EXCEPT ![QuotaKey(userId, channelId)] = quota]

\* lines 218-224: the rejection aborts before any save
RejectedStore(userId, channelId, quota) == quotaStore

\* lines 203-240: read, roll over, compare, debit, save
QuotaDecision(userData, channelId, quotaLimit, reads, qresp, wresp) ==
  LET got == getUserChannelQuota(userData.ID, channelId, qresp)
      quota == NormalizeMonth(got.quota)
      debited == [quota EXCEPT !.UsedCount = quota.UsedCount + 1]
      saved == saveUserChannelQuota(userData.ID, channelId, debited, wresp)
  IN IF got.err
     THEN Answer(StatusInternalServerError, "readfail", "none", 0, 0, 0,
                 "unset", userData.ID, reads, 1, 0, quotaStore)
     ELSE IF QuotaExhausted(quota, quotaLimit)
     THEN Answer(StatusTooManyRequests, "exceeded", "none", quota.UsedCount,
                 quotaLimit, 0, "unset", userData.ID, reads, 1, 0,
                 RejectedStore(userData.ID, channelId, quota))
     ELSE Answer(AfterSave(saved.err), "ok", "active", debited.UsedCount, quotaLimit,
                 quotaLimit - debited.UsedCount, "false", userData.ID, reads,
                 1, 1, saved.store)

\* a limit test that knows no sentinel
Unlimited_Never(quotaLimit) == FALSE

\* line 189: the unlimited sentinel
Unlimited(quotaLimit) == quotaLimit = -1

\* a core that takes itself for enabled
CoreDisabled_Never == FALSE

\* line 116: the core is disabled
CoreDisabled == ~Enabled

\* ExternalUserAuth, lines 110-242
Admit(tok, channelId, enabledHdr, limitHdr, uresp, qresp, wresp) ==
  LET quotaEnabled == enabledHdr # "false"
      quotaLimit == ParseQuotaLimit(limitHdr)
      v == verifyExternalJWT(tok, uresp)
      userData == v.user
  IN IF CoreDisabled
     THEN Answer(StatusServiceUnavailable, "disabled", "none", 0, 0, 0,
                 "unset", "", 0, 0, 0, quotaStore)
     ELSE IF tok.empty
     THEN Answer(StatusUnauthorized, "notoken", "none", 0, 0, 0, "unset", "",
                 0, 0, 0, quotaStore)
     ELSE IF v.err # ""
     THEN Answer(StatusUnauthorized, v.err, "none", 0, 0, 0, "unset", "",
                 v.reads, 0, 0, quotaStore)
     ELSE IF IsBypassUser(userData)
     THEN Answer(StatusOK, "ok", "vip", 0, -1, -1, "true", userData.ID,
                 v.reads, 0, 0, quotaStore)
     ELSE IF ~quotaEnabled
     THEN Answer(StatusOK, "ok", "disabled", 0, -1, -1, "false", userData.ID,
                 v.reads, 0, 0, quotaStore)
     ELSE IF Unlimited(quotaLimit)
     THEN Answer(StatusOK, "ok", "unlimited", 0, -1, -1, "false", userData.ID,
                 v.reads, 0, 0, quotaStore)
     ELSE QuotaDecision(userData, channelId, quotaLimit, v.reads, qresp, wresp)


(***************************************************************************)
(* History of the watched quota key, kept for the scenarios: n counts the  *)
(* quota decisions taken on the key, one after the other with the same     *)
(* limit L and a working store, since the key was last fresh (no record,   *)
(* or a record of an earlier month); n = -1 when the sequence was left.    *)
(* exh: the last decision used up the limit or was a rejection.  rst: an   *)
(* operator reset of the key's user succeeded and no decision was taken    *)
(* on the key since.  rolled: whether the last decision on the key read a  *)
(* stale record ("read") and saved its roll-over ("saved"), or not ("no"). *)
(***************************************************************************)
MaxRun == MaxLimit + 2

FreshHist == [n |-> 0, L |-> 0, exh |-> FALSE, rst |-> FALSE, rolled |-> "no"]

StoredStale(key) ==
  /\ quotaStore[key] # Nil
  /\ quotaStore[key].MonthKey # MonthKey(now)

HistAfterDecision(h, key, quotaLimit, r, qresp, wresp) ==
  LET saved == r.status = StatusOK /\ wresp = "ok"
      clean == /\ h.n >= 0
               /\ h.n = 0 \/ h.L = quotaLimit
               /\ quotaLimit > 0
               /\ qresp = "ok"
               /\ r.status = StatusTooManyRequests \/ saved
  IN [n |-> IF clean THEN h.n + 1 ELSE -1,
      L |-> IF clean THEN quotaLimit ELSE 0,
      exh |-> \/ r.status = StatusTooManyRequests
              \/ saved /\ qresp = "ok" /\ r.remaining = 0,
      rst |-> FALSE,
      rolled |-> IF qresp = "ok" /\ StoredStale(key)
                 THEN IF saved THEN "saved" ELSE "read"
                 ELSE "no"]

(***************************************************************************)
(* Actions of the quota middleware and of the operator endpoint.           *)
(***************************************************************************)
\* the (URL, access credential, monthly quota) triples given at start
InitInputs ==
  {<<"", "", 0>>, <<"", "secret", 0>>, <<"https://up", "", 0>>,
   <<"https://up", "secret", 0>>, <<"redis://ok", "", MaxLimit>>,
   <<"redis://down", "", 0>>, <<"redis://%bad", "", 0>>}

\* line 52: redis.ParseURL fails on "redis://%bad"
ParsesURL(url) == url # "redis://%bad"

\* a liveness probe whose result is not looked at
PingSucceeds_Ignored(url) == TRUE

\* line 61: the Ping of the new client fails on "redis://down"
PingSucceeds(url) == url = "redis://ok"

\* InitExternalUserAuth, lines 39-82
InitExternalUserAuth(redisURL, redisToken, monthlyQuota) ==
  /\ phase = "boot"
  /\ phase' = "run"
  /\ RedisURL' = redisURL
  /\ RedisToken' = redisToken
  /\ MonthlyQuota' = IF monthlyQuota > 0 THEN monthlyQuota ELSE MonthlyQuota
  /\ IF HasRedisPrefix(redisURL)
     THEN /\ useLocalRedis' = TRUE
          /\ Enabled' = (ParsesURL(redisURL) /\ PingSucceeds(redisURL))
     ELSE IF redisURL # "" /\ redisToken # ""
     THEN /\ useLocalRedis' = FALSE
          /\ Enabled' = TRUE
     ELSE /\ useLocalRedis' = useLocalRedis
          /\ Enabled' = FALSE
  /\ ExternalUserAuthEnabled' = Enabled'
  /\ log' = [op |-> "init"]
  /\ UNCHANGED <<now, userStore, quotaStore, watch, hist>>
  /\ UNCHANGED <<rlVars, qcVars>>

\* the responses of the store calls a request makes ("none": no such call)
UserResponses(tok, c, e, l, uresps) ==
  IF Admit(tok, c, e, l, "ok", "ok", "ok").userReads = 0 THEN {"none"}
  ELSE ReadResponses(useLocalRedis) \cap uresps

QuotaResponses(tok, c, e, l, ur) ==
  IF Admit(tok, c, e, l, ur, "ok", "ok").quotaReads = 0 THEN {"none"}
  ELSE ReadResponses(useLocalRedis)

SaveResponses(tok, c, e, l, ur, qr) ==
  IF Admit(tok, c, e, l, ur, qr, "ok").quotaWrites = 0 THEN {"none"}
  ELSE WriteResponses(useLocalRedis)

\* what a request leaves in the log
RequestLog(tok, channelId, enabledHdr, limitHdr, uresp, qresp, wresp, r) ==
  [op |-> "request", tok |-> tok, channelId |-> channelId,
   enabledHdr |-> enabledHdr,
   quotaLimit |-> ParseQuotaLimit(limitHdr),
   fallback |-> (r.userReads = 1 /\ getUserFromRedis(tok.userId, uresp) = Nil),
   qresp |-> qresp, saveErr |-> (r.quotaWrites = 1 /\ wresp # "ok"),
   status |-> r.status, reason |-> r.reason, qstatus |-> r.qstatus,
   used |-> r.used, total |-> r.total, remaining |-> r.remaining,
   vip |-> r.vip, next |-> r.next, userId |-> r.userId,
   userReads |-> r.userReads, quotaReads |-> r.quotaReads,
   quotaWrites |-> r.quotaWrites]

\* one request through ExternalUserAuth
ExternalUserAuth(tok, channelId, enabledHdr, limitHdr, uresp, qresp, wresp) ==
  \E r \in {Admit(tok, channelId, enabledHdr, limitHdr, uresp, qresp, wresp)} :
    LET key == QuotaKey(r.userId, channelId)
        decided == /\ r.quotaReads = 1
                   /\ r.status # StatusInternalServerError
                   /\ key = watch
    IN /\ phase = "run"
       /\ decided => hist.n < MaxRun
       /\ r.used <= MaxRun
       /\ quotaStore' = r.store
       /\ hist' = IF decided
                  THEN HistAfterDecision(hist, key, ParseQuotaLimit(limitHdr),
                                         r, qresp, wresp)
                  ELSE hist
       /\ log' = RequestLog(tok, channelId, enabledHdr, limitHdr, uresp, qresp,
                             wresp, r)
       /\ UNCHANGED <<phase, RedisURL, RedisToken, MonthlyQuota, Enabled,
                      useLocalRedis, ExternalUserAuthEnabled, now, userStore,
                      watch>>
       /\ UNCHANGED <<rlVars, qcVars>>

\* redisSet of the controller, lines 302-325: a POST to the configured URL;
\* the HTTP client refuses a redis:// URL
redisSet(key, value, resp) ==
  IF HasRedisPrefix(RedisURL) \/ RedisURL = "" \/ resp # "ok"
  THEN [err |-> TRUE, store |-> quotaStore]
  ELSE [err |-> FALSE, store |-> [quotaStore EXCEPT ![key] = value]]

\* UpdateExternalUserQuota, lines 162-209
UpdateExternalUserQuota(userId, usedCount, reset, resp) ==
  LET quota == UserQuota(IF reset THEN 0 ELSE usedCount, MonthKey(now), now)
      quotaKey == "quota:" \o userId
  IN \E set \in {redisSet(quotaKey, quota, resp)} :
       /\ phase = "run"
       /\ quotaStore' = set.store
       /\ hist' = IF set.err THEN hist
                  ELSE IF watch = quotaKey
                  THEN [hist EXCEPT !.n = -1, !.L = 0, !.rolled = "no",
                                    !.rst = (reset \/ @)]
                  ELSE IF reset /\ \E c \in ChannelIds : watch = QuotaKey(userId, c)
                  THEN [hist EXCEPT !.rst = TRUE]
                  ELSE hist
       /\ log' = [op |-> "update", userId |-> userId, reset |-> reset,
                  usedCount |-> usedCount,
                  status |-> IF set.err THEN StatusInternalServerError
                             ELSE StatusOK]
       /\ UNCHANGED <<phase, RedisURL, RedisToken, MonthlyQuota, Enabled,
                      useLocalRedis, ExternalUserAuthEnabled, now, userStore,
                      watch>>
       /\ UNCHANGED <<rlVars, qcVars>>

\* the loop of BatchUpdateQuota, lines 362-379: one redisSet per user id, a
\* failed write puts the user on the list of failures and the loop goes on
RECURSIVE BatchSet(_, _, _, _)
BatchSet(userIds, quota, resps, store) ==
  IF userIds = <<>> THEN [store |-> store, failedUsers |-> <<>>]
  ELSE LET failed == HasRedisPrefix(RedisURL) \/ RedisURL = ""
                       \/ Head(resps) # "ok"
           rest == BatchSet(Tail(userIds), quota, Tail(resps),
                            IF failed THEN store
                            ELSE [store EXCEPT !["quota:" \o Head(userIds)] = quota])
       IN [store |-> rest.store,
           failedUsers |-> IF failed THEN <<Head(userIds)>> \o rest.failedUsers
                           ELSE rest.failedUsers]

\* BatchUpdateQuota, lines 348-388
BatchUpdateQuota(userIds, usedCount, reset, resps) ==
  LET quota == UserQuota(IF reset THEN 0 ELSE usedCount, MonthKey(now), now)
  IN \E set \in {BatchSet(userIds, quota, resps, quotaStore)} :
       LET written == {userIds[i] : i \in DOMAIN userIds} \
                        {set.failedUsers[i] : i \in DOMAIN set.failedUsers}
       IN /\ phase = "run"
          /\ Len(resps) = Len(userIds)
          /\ quotaStore' = set.store
          /\ hist' = IF \E u \in written : watch = "quota:" \o u
                     THEN [hist EXCEPT !.n = -1, !.L = 0, !.rolled = "no",
                                       !.rst = (reset \/ @)]
                     ELSE IF reset /\ \E u \in written, c \in ChannelIds :
                                        watch = QuotaKey(u, c)
                     THEN [hist EXCEPT !.rst = TRUE]
                     ELSE hist
          /\ log' = [op |-> "batch", userIds |-> userIds, reset |-> reset,
                     usedCount |-> usedCount,
                     successCount |-> Len(userIds) - Len(set.failedUsers),
                     failedUsers |-> set.failedUsers,
                     status |-> StatusOK]
          /\ UNCHANGED <<phase, RedisURL, RedisToken, MonthlyQuota, Enabled,
                         useLocalRedis, ExternalUserAuthEnabled, now, userStore,
                         watch>>
          /\ UNCHANGED <<rlVars, qcVars>>

\* GetExternalUserAuthStatus of external_user_status.go, lines 26-79: the
\* flags are computed from the configured URL and access credential
GetExternalUserAuthStatus ==
  LET redisConfigured == RedisURL # "" /\ RedisToken # ""
      reasons == (IF RedisURL = "" THEN <<"url">> ELSE <<>>) \o
                 (IF RedisToken = "" THEN <<"token">> ELSE <<>>)
  IN /\ phase = "run"
     /\ log' = [op |-> "status", enabled |-> redisConfigured,
                redisConfigured |-> redisConfigured,
                diagRedisURLSet |-> (RedisURL # ""),
                diagRedisTokenSet |-> (RedisToken # ""),
                disabledReason |-> IF redisConfigured THEN <<>> ELSE reasons,
                status |-> StatusOK]
     /\ UNCHANGED <<phase, RedisURL, RedisToken, MonthlyQuota, Enabled,
                    useLocalRedis, ExternalUserAuthEnabled, now, userStore,
                    quotaStore, watch, hist>>
     /\ UNCHANGED <<rlVars, qcVars>>

\* getUserQuota, lines 327-351: the legacy record of the user
getUserQuota(userId, resp) == getUserChannelQuota(userId, "", resp)

\* a query that saves the record it normalised
InfoStore_SavesRollover(userId, quota) ==
  [quotaStore EXCEPT ![QuotaKey(userId, "")] = quota]

\* lines 453-459: the query returns the normalised count and saves nothing
InfoStore(userId, quota) == quotaStore

\* GetExternalUserQuotaInfo, lines 434-460
GetExternalUserQuotaInfo(userId, uresp, qresp) ==
  LET userData == getUserFromRedis(userId, uresp)
      got == getUserQuota(userId, qresp)
      quota == IF got.quota.MonthKey # MonthKey(now)
               THEN [got.quota EXCEPT !.UsedCount = 0]
               ELSE got.quota
      failed == [used |-> 0, total |-> 0, isVIP |-> FALSE, err |-> TRUE,
                 quotaReads |-> 0, store |-> quotaStore]
  IN IF ~Enabled THEN failed
     ELSE IF userData = Nil THEN failed
     ELSE IF IsBypassUser(userData)
     THEN [used |-> 0, total |-> -1, isVIP |-> TRUE, err |-> FALSE,
           quotaReads |-> 0, store |-> quotaStore]
     ELSE IF got.err THEN [failed EXCEPT !.quotaReads = 1]
     ELSE [used |-> quota.UsedCount, total |-> MonthlyQuota, isVIP |-> FALSE,
           err |-> FALSE, quotaReads |-> 1, store |-> InfoStore(userId, quota)]

\* a call of GetExternalUserQuotaInfo
QuotaInfo(userId, uresp, qresp) ==
  \E r \in {GetExternalUserQuotaInfo(userId, uresp, qresp)} :
    /\ phase = "run"
    /\ quotaStore' = r.store
    /\ log' = [op |-> "quotainfo", userId |-> userId, qresp |-> qresp,
               used |-> r.used, total |-> r.total, isVIP |-> r.isVIP,
               err |-> r.err, quotaReads |-> r.quotaReads]
    /\ UNCHANGED <<RedisURL, RedisToken, MonthlyQuota, Enabled, useLocalRedis,
                   ExternalUserAuthEnabled, now, phase, userStore, watch, hist>>
    /\ UNCHANGED <<rlVars, qcVars>>

\* SetUserVIP, lines 463-486
SetUserVIP(userId, isVIP, expiresAt, uresp, wresp) ==
  LET found == getUserFromRedis(userId, uresp)
      userData == [found EXCEPT !.IsVIP = isVIP, !.VIPExpiresAt = expiresAt]
      set == IF found = Nil THEN [err |-> TRUE, store |-> userStore]
             ELSE IF useLocalRedis
             THEN IF wresp = "ok"
                  THEN [err |-> FALSE,
                        store |-> [userStore EXCEPT ![userId] = userData]]
                  ELSE [err |-> TRUE, store |-> userStore]
             ELSE setUserToUpstash(userId, userData, wresp)
  IN /\ phase = "run"
     /\ userStore' = set.store
     /\ log' = [op |-> "setvip", userId |-> userId, isVIP |-> isVIP,
                found |-> (found # Nil), wresp |-> wresp, err |-> set.err]
     /\ UNCHANGED <<RedisURL, RedisToken, MonthlyQuota, Enabled, useLocalRedis,
                    ExternalUserAuthEnabled, now, phase, quotaStore, watch,
                    hist>>
     /\ UNCHANGED <<rlVars, qcVars>>

\* Requests of one user on one channel handled side by side: each handler
\* runs ExternalUserAuth in two steps, the store read with what precedes it
\* and the comparison with the write.
MaxInFlight == 2
Handlers == 1 .. MaxInFlight
NotInFlight == [pc |-> "idle", quota |-> Nil]
ConcToken == TokU1
ConcChannelId == "c1"
ConcLimitHdr == [ok |-> TRUE, n |-> MaxLimit]

\* lines 110-216: the request up to the read of its quota record and the
\* month rollover of the copy read
QuotaBegin(h) ==
  \E r \in {Admit(ConcToken, ConcChannelId, "", ConcLimitHdr, "ok", "ok", "ok")} :
    /\ phase = "run"
    /\ inflight[h].pc = "idle"
    /\ IF r.quotaReads = 0
       THEN /\ inflight' = inflight
            /\ log' = [op |-> "conc", handler |-> h, step |-> "answer",
                       status |-> r.status]
       ELSE /\ inflight' = [inflight EXCEPT ![h] =
                   [pc |-> "read",
                    quota |-> NormalizeMonth(
                       getUserChannelQuota(r.userId, ConcChannelId, "ok").quota)]]
            /\ log' = [op |-> "conc", handler |-> h, step |-> "read",
                       status |-> 0]
    /\ UNCHANGED <<phase, RedisURL, RedisToken, MonthlyQuota, Enabled,
                   useLocalRedis, ExternalUserAuthEnabled, now, userStore,
                   quotaStore, watch, hist, admitted, resetNext>>
    /\ UNCHANGED rlVars

\* lines 218-240: the comparison of the copy read, the debit and the save
QuotaFinish(h) ==
  LET quota == inflight[h].quota
      debited == [quota EXCEPT !.UsedCount = quota.UsedCount + 1]
  IN /\ inflight[h].pc = "read"
     /\ inflight' = [inflight EXCEPT ![h] = NotInFlight]
     /\ IF QuotaExhausted(quota, ParseQuotaLimit(ConcLimitHdr))
        THEN /\ quotaStore' = RejectedStore(ConcToken.userId, ConcChannelId, quota)
             /\ admitted' = admitted
             /\ log' = [op |-> "conc", handler |-> h, step |-> "answer",
                        status |-> StatusTooManyRequests]
        ELSE /\ quotaStore' = saveUserChannelQuota(ConcToken.userId,
                                 ConcChannelId, debited, "ok").store
             /\ admitted' = admitted + 1
             /\ log' = [op |-> "conc", handler |-> h, step |-> "answer",
                        status |-> StatusOK]
     /\ UNCHANGED <<phase, RedisURL, RedisToken, MonthlyQuota, Enabled,
                    useLocalRedis, ExternalUserAuthEnabled, now, userStore,
                    watch, hist, resetNext>>
     /\ UNCHANGED rlVars

\* the wall clock advances by a second
Tick ==
  /\ phase = "run"
  /\ now < MaxTime
  /\ now' = now + 1
  /\ hist' = IF MonthKey(now + 1) # MonthKey(now)
             THEN [FreshHist EXCEPT !.rst = hist.rst]
             ELSE hist
  /\ log' = [op |-> "tick"]
  /\ UNCHANGED <<phase, RedisURL, RedisToken, MonthlyQuota, Enabled,
                 useLocalRedis, ExternalUserAuthEnabled, userStore, quotaStore,
                 watch>>
  /\ UNCHANGED <<rlVars, qcVars>>


(***************************************************************************)
(* The channel rate limiter, service/channel_rate_limit.go.                *)
(***************************************************************************)
ChannelIDs == {1}
KeyIndexes == {0, 1}
Goroutines == {"g1", "g2"}
RateLimits == 0 .. MaxRate
MaxCount == MaxRate + 1    \* counts are followed up to this value

\* time.Now().Format("2006-01-02-15-04") and Format("2006-01-02")
MinuteKey(t) == t
DayKey(t) == t \div DayLen

getChannelRateLimitKey(channelID, keyIndex) ==
  "channel_rate_limit:" \o ToString(channelID) \o ":" \o ToString(keyIndex)

\* the channels of the dashboard scenarios: one more channel
InfoChannelIDs == ChannelIDs \cup {2}

RateKeys ==
  {getChannelRateLimitKey(c, k) : c \in InfoChannelIDs, k \in KeyIndexes}

\* the record created for an absent key, lines 47-56 and 131-140
NewChannelRateLimitInfo(channelID, keyIndex, rpmLimit, rpdLimit, currentMinute, currentDay) ==
  [ChannelID |-> channelID, KeyIndex |-> keyIndex, RPMCount |-> 0,
   RPDCount |-> 0, RPMLimit |-> rpmLimit, RPDLimit |-> rpdLimit,
   RPMRemaining |-> 0, RPDRemaining |-> 0,
   LastMinuteKey |-> currentMinute, LastDayKey |-> currentDay]

\* a rollover that clears the day count with the minute count
RollOver_MinuteClearsDay(info, currentMinute, currentDay) ==
  IF info.LastMinuteKey # currentMinute
  THEN [info EXCEPT !.RPMCount = 0, !.LastMinuteKey = currentMinute,
                    !.RPDCount = 0, !.LastDayKey = currentDay]
  ELSE info

\* lines 61-70 and 145-154: the lazy resets of the minute and the day count
RollOver(info, currentMinute, currentDay) ==
  LET m == IF info.LastMinuteKey # currentMinute
           THEN [info EXCEPT !.RPMCount = 0, !.LastMinuteKey = currentMinute]
           ELSE info
  IN IF m.LastDayKey # currentDay
     THEN [m EXCEPT !.RPDCount = 0, !.LastDayKey = currentDay]
     ELSE m

\* a remaining budget that is not clamped at 0
Remaining_Unclamped(limit, count) ==
  IF limit > 0 THEN limit - count ELSE -1

\* lines 77-93: the remaining budget of one axis, -1 for no limit
Remaining(limit, count) ==
  IF limit > 0
  THEN IF limit - count < 0 THEN 0 ELSE limit - count
  ELSE -1

\* GetChannelRateLimitInfo, lines 37-96, under the write lock: the store it
\* leaves; the pointer it returns is store[key]
GetChannelRateLimitInfo(store, channelID, keyIndex, rpmLimit, rpdLimit, currentMinute, currentDay) ==
  LET key == getChannelRateLimitKey(channelID, keyIndex)
      info == IF store[key] = Nil
              THEN NewChannelRateLimitInfo(channelID, keyIndex, rpmLimit,
                                           rpdLimit, currentMinute, currentDay)
              ELSE store[key]
      r == RollOver(info, currentMinute, currentDay)
  IN [store EXCEPT ![key] =
        [r EXCEPT !.RPMLimit = rpmLimit, !.RPDLimit = rpdLimit,
                  !.RPMRemaining = Remaining(rpmLimit, r.RPMCount),
                  !.RPDRemaining = Remaining(rpdLimit, r.RPDCount)]]

Allowed == [allowed |-> TRUE, axis |-> "", count |-> 0, limit |-> 0]

\* comparisons that let one request more through on each axis
LimitVerdict_Strict(info, rpmLimit, rpdLimit) ==
  IF rpmLimit > 0 /\ info.RPMCount > rpmLimit
  THEN [allowed |-> FALSE, axis |-> "rpm", count |-> info.RPMCount,
        limit |-> rpmLimit]
  ELSE IF rpdLimit > 0 /\ info.RPDCount > rpdLimit
  THEN [allowed |-> FALSE, axis |-> "rpd", count |-> info.RPDCount,
        limit |-> rpdLimit]
  ELSE Allowed

\* the comparisons without the test that the axis has a limit
LimitVerdict_NoGuard(info, rpmLimit, rpdLimit) ==
  IF info.RPMCount >= rpmLimit
  THEN [allowed |-> FALSE, axis |-> "rpm", count |-> info.RPMCount,
        limit |-> rpmLimit]
  ELSE IF info.RPDCount >= rpdLimit
  THEN [allowed |-> FALSE, axis |-> "rpd", count |-> info.RPDCount,
        limit |-> rpdLimit]
  ELSE Allowed

\* the comparisons with the daily axis first
LimitVerdict_DayFirst(info, rpmLimit, rpdLimit) ==
  IF rpdLimit > 0 /\ info.RPDCount >= rpdLimit
  THEN [allowed |-> FALSE, axis |-> "rpd", count |-> info.RPDCount,
        limit |-> rpdLimit]
  ELSE IF rpmLimit > 0 /\ info.RPMCount >= rpmLimit
  THEN [allowed |-> FALSE, axis |-> "rpm", count |-> info.RPMCount,
        limit |-> rpmLimit]
  ELSE Allowed

\* lines 107-117: the two comparisons and the counts the message cites
LimitVerdict(info, rpmLimit, rpdLimit) ==
  IF rpmLimit > 0 /\ info.RPMCount >= rpmLimit
  THEN [allowed |-> FALSE, axis |-> "rpm", count |-> info.RPMCount,
        limit |-> rpmLimit]
  ELSE IF rpdLimit > 0 /\ info.RPDCount >= rpdLimit
  THEN [allowed |-> FALSE, axis |-> "rpd", count |-> info.RPDCount,
        limit |-> rpdLimit]
  ELSE Allowed

\* a check that counts the requests it rejects
CheckChannelRateLimit_CountsRejections(store, channelID, keyIndex, rpmLimit, rpdLimit, currentMinute, currentDay) ==
  IF rpmLimit <= 0 /\ rpdLimit <= 0
  THEN [store |-> store, verdict |-> Allowed, touched |-> FALSE]
  ELSE LET key == getChannelRateLimitKey(channelID, keyIndex)
           after == GetChannelRateLimitInfo(store, channelID, keyIndex,
                       rpmLimit, rpdLimit, currentMinute, currentDay)
           v == LimitVerdict(after[key], rpmLimit, rpdLimit)
       IN [store |-> IF v.allowed THEN after
                     ELSE [after EXCEPT ![key].RPMCount = @ + 1,
                                        ![key].RPDCount = @ + 1],
           verdict |-> v, touched |-> TRUE]

\* CheckChannelRateLimit, lines 100-118, run without interference
CheckChannelRateLimit(store, channelID, keyIndex, rpmLimit, rpdLimit, currentMinute, currentDay) ==
  IF rpmLimit <= 0 /\ rpdLimit <= 0
  THEN [store |-> store, verdict |-> Allowed, touched |-> FALSE]
  ELSE LET after == GetChannelRateLimitInfo(store, channelID, keyIndex,
                       rpmLimit, rpdLimit, currentMinute, currentDay)
           info == after[getChannelRateLimitKey(channelID, keyIndex)]
       IN [store |-> after, verdict |-> LimitVerdict(info, rpmLimit, rpdLimit),
           touched |-> TRUE]

\* a preparation that starts from a new record every time
IncrementPrepare_Fresh(store, channelID, keyIndex, rpmLimit, rpdLimit, currentMinute, currentDay) ==
  [store EXCEPT ![getChannelRateLimitKey(channelID, keyIndex)] =
     NewChannelRateLimitInfo(channelID, keyIndex, rpmLimit, rpdLimit,
                             currentMinute, currentDay)]

\* IncrementChannelRateLimit, lines 129-154: the record before the increment
IncrementPrepare(store, channelID, keyIndex, rpmLimit, rpdLimit, currentMinute, currentDay) ==
  LET key == getChannelRateLimitKey(channelID, keyIndex)
      info == IF store[key] = Nil
              THEN NewChannelRateLimitInfo(channelID, keyIndex, rpmLimit,
                                           rpdLimit, currentMinute, currentDay)
              ELSE store[key]
  IN [store EXCEPT ![key] = RollOver(info, currentMinute, currentDay)]

\* an increment of the minute count alone
IncrementCounts_MinuteOnly(store, channelID, keyIndex) ==
  [store EXCEPT ![getChannelRateLimitKey(channelID, keyIndex)] =
     [@ EXCEPT !.RPMCount = @ + 1]]

\* lines 157-158
IncrementCounts(store, channelID, keyIndex) ==
  [store EXCEPT ![getChannelRateLimitKey(channelID, keyIndex)] =
     [@ EXCEPT !.RPMCount = @ + 1, !.RPDCount = @ + 1]]

\* IncrementChannelRateLimit, lines 121-164
IncrementChannelRateLimit(store, channelID, keyIndex, rpmLimit, rpdLimit, currentMinute, currentDay) ==
  IncrementCounts(IncrementPrepare(store, channelID, keyIndex, rpmLimit,
                                   rpdLimit, currentMinute, currentDay),
                  channelID, keyIndex)

\* GetAllChannelRateLimitInfo, lines 167-176: the records of the table as
\* they are stored
GetAllChannelRateLimitInfo(store) ==
  {store[k] : k \in {x \in DOMAIN store : store[x] # Nil}}

\* GetChannelRateLimitInfoByChannelID, lines 179-191: the stored records
\* whose key starts with the channel's prefix
GetChannelRateLimitInfoByChannelID(store, channelID) ==
  {store[k] : k \in {x \in {getChannelRateLimitKey(channelID, i) : i \in KeyIndexes} :
                       store[x] # Nil}}

\* a reset that deletes every key slot of the channel
ResetChannelRateLimit_WholeChannel(store, channelID, keyIndex) ==
  [k \in DOMAIN store |->
     IF k \in {getChannelRateLimitKey(channelID, i) : i \in KeyIndexes}
     THEN Nil ELSE store[k]]

\* ResetChannelRateLimit, lines 194-201
ResetChannelRateLimit(store, channelID, keyIndex) ==
  [store EXCEPT ![getChannelRateLimitKey(channelID, keyIndex)] = Nil]

(***************************************************************************)
(* History of a rate record for the scenarios.  cyc counts the check-then- *)
(* increment cycles run on the key in the present minute, all with the     *)
(* same RPM limit R > 0 and none stopped by the daily limit, when nothing  *)
(* else touched the key in this minute; cyc = -1 otherwise.  accMinute and *)
(* accDay count the requests accepted under each minute and day label in   *)
(* the concurrent scenario.                                                *)
(***************************************************************************)
FreshRateHist ==
  [cyc |-> 0, R |-> 0,
   accMinute |-> [m \in 0 .. MaxMinute |-> 0],
   accDay |-> [d \in 0 .. DayKey(MaxMinute) |-> 0]]

Idle == [pc |-> "idle", minute |-> 0, day |-> 0]

AllIdle == \A g \in Goroutines : goroutine[g].pc = "idle"

CountBelow(key, n) ==
  IF channelRateLimitStore[key] = Nil THEN TRUE
  ELSE /\ channelRateLimitStore[key].RPMCount < n
       /\ channelRateLimitStore[key].RPDCount < n

RateLog(op, channelID, keyIndex, rpmLimit, rpdLimit, verdict, touched, incremented) ==
  [op |-> op, key |-> getChannelRateLimitKey(channelID, keyIndex),
   channelID |-> channelID, keyIndex |-> keyIndex,
   rpmLimit |-> rpmLimit, rpdLimit |-> rpdLimit, allowed |-> verdict.allowed,
   axis |-> verdict.axis, count |-> verdict.count, limit |-> verdict.limit,
   touched |-> touched, incremented |-> incremented]

(***************************************************************************)
(* Rate limiter operations run one at a time.                              *)
(***************************************************************************)
\* a call of CheckChannelRateLimit
DoCheck(channelID, keyIndex, rpmLimit, rpdLimit) ==
  \E c \in {CheckChannelRateLimit(channelRateLimitStore, channelID, keyIndex,
              rpmLimit, rpdLimit, MinuteKey(minuteNow), DayKey(minuteNow))} :
    /\ AllIdle
    /\ channelRateLimitStore' = c.store
    /\ rlLog' = RateLog("check", channelID, keyIndex, rpmLimit, rpdLimit,
                        c.verdict, c.touched, FALSE)
    /\ rlHist' = [rlHist EXCEPT !.cyc = -1]
    /\ UNCHANGED <<channelRateLimitMutex, minuteNow, goroutine, policy>>
    /\ UNCHANGED <<mwVars, qcVars>>

\* a call of IncrementChannelRateLimit
DoIncrement(channelID, keyIndex, rpmLimit, rpdLimit) ==
  /\ AllIdle
  /\ CountBelow(getChannelRateLimitKey(channelID, keyIndex), MaxCount)
  /\ channelRateLimitStore' =
       IncrementChannelRateLimit(channelRateLimitStore, channelID, keyIndex,
          rpmLimit, rpdLimit, MinuteKey(minuteNow), DayKey(minuteNow))
  /\ rlLog' = RateLog("increment", channelID, keyIndex, rpmLimit, rpdLimit,
                      Allowed, TRUE, TRUE)
  /\ rlHist' = [rlHist EXCEPT !.cyc = -1]
  /\ UNCHANGED <<channelRateLimitMutex, minuteNow, goroutine, policy>>
  /\ UNCHANGED <<mwVars, qcVars>>

\* one request of a caller: the check, and the increment when it allows
DoCycle(channelID, keyIndex, rpmLimit, rpdLimit) ==
  \E c \in {CheckChannelRateLimit(channelRateLimitStore, channelID, keyIndex,
              rpmLimit, rpdLimit, MinuteKey(minuteNow), DayKey(minuteNow))} :
    LET clean == /\ rlHist.cyc >= 0
                 /\ rpmLimit > 0
                 /\ rlHist.cyc = 0 \/ rlHist.R = rpmLimit
                 /\ c.verdict.axis # "rpd"
    IN /\ AllIdle
       /\ CountBelow(getChannelRateLimitKey(channelID, keyIndex), MaxCount)
       /\ rlHist.cyc <= MaxRate + 1
       /\ channelRateLimitStore' =
            IF c.verdict.allowed
            THEN IncrementChannelRateLimit(c.store, channelID, keyIndex,
                   rpmLimit, rpdLimit, MinuteKey(minuteNow), DayKey(minuteNow))
            ELSE c.store
       /\ rlLog' = RateLog("cycle", channelID, keyIndex, rpmLimit, rpdLimit,
                           c.verdict, TRUE, c.verdict.allowed)
       /\ rlHist' = [rlHist EXCEPT !.cyc = IF clean THEN @ + 1 ELSE -1,
                                   !.R = IF clean THEN rpmLimit ELSE 0]
       /\ UNCHANGED <<channelRateLimitMutex, minuteNow, goroutine, policy>>
       /\ UNCHANGED <<mwVars, qcVars>>

\* the operator's reset of one key slot
DoReset(channelID, keyIndex) ==
  /\ AllIdle
  /\ channelRateLimitStore' =
       ResetChannelRateLimit(channelRateLimitStore, channelID, keyIndex)
  /\ rlLog' = RateLog("reset", channelID, keyIndex, 0, 0, Allowed,
       channelRateLimitStore[getChannelRateLimitKey(channelID, keyIndex)] # Nil,
       FALSE)
  /\ rlHist' = [rlHist EXCEPT !.cyc = -1]
  /\ UNCHANGED <<channelRateLimitMutex, minuteNow, goroutine, policy>>
  /\ UNCHANGED <<mwVars, qcVars>>

\* what a query leaves in the log: the records it returned
QueryLog(op, channelID, keyIndex, rpmLimit, rpdLimit, result) ==
  [op |-> op, key |-> getChannelRateLimitKey(channelID, keyIndex),
   channelID |-> channelID, keyIndex |-> keyIndex, rpmLimit |-> rpmLimit,
   rpdLimit |-> rpdLimit, result |-> result]

\* a dashboard query of one key slot with GetChannelRateLimitInfo
DoGetInfo(channelID, keyIndex, rpmLimit, rpdLimit) ==
  \E after \in {GetChannelRateLimitInfo(channelRateLimitStore, channelID,
                   keyIndex, rpmLimit, rpdLimit, MinuteKey(minuteNow),
                   DayKey(minuteNow))} :
    /\ AllIdle
    /\ channelRateLimitStore' = after
    /\ rlLog' = QueryLog("getinfo", channelID, keyIndex, rpmLimit, rpdLimit,
                         {after[getChannelRateLimitKey(channelID, keyIndex)]})
    /\ rlHist' = [rlHist EXCEPT !.cyc = -1]
    /\ UNCHANGED <<channelRateLimitMutex, minuteNow, goroutine, policy>>
    /\ UNCHANGED <<mwVars, qcVars>>

\* a query of the whole table with GetAllChannelRateLimitInfo
DoGetAll ==
  /\ AllIdle
  /\ rlLog' = QueryLog("getall", 0, 0, 0, 0,
                       GetAllChannelRateLimitInfo(channelRateLimitStore))
  /\ UNCHANGED <<channelRateLimitStore, channelRateLimitMutex, minuteNow,
                 goroutine, policy, rlHist>>
  /\ UNCHANGED <<mwVars, qcVars>>

\* a query of one channel with GetChannelRateLimitInfoByChannelID
DoGetByChannelID(channelID) ==
  /\ AllIdle
  /\ rlLog' = QueryLog("bychannel", channelID, 0, 0, 0,
        GetChannelRateLimitInfoByChannelID(channelRateLimitStore, channelID))
  /\ UNCHANGED <<channelRateLimitStore, channelRateLimitMutex, minuteNow,
                 goroutine, policy, rlHist>>
  /\ UNCHANGED <<mwVars, qcVars>>

\* The reset endpoint of a channel (part_000, lines 452-497) on the multi-
\* key channel; the channel exists and its id parses.
MultiKeySize == Cardinality(KeyIndexes)

\* a loop that leaves out every other key slot
NextSlot_SkipOne(i) == i + 2

\* part_000, line 485: i++
NextSlot(i) == i + 1

\* the bodies of a reset request: none, a JSON object without key_index, a
\* JSON object with key_index
NoBody == [kind |-> "empty", key_index |-> 0]
NoFieldBody == [kind |-> "nofield", key_index |-> 0]
KeyBody(k) == [kind |-> "key", key_index |-> k]
Bodies == {NoBody, NoFieldBody} \cup {KeyBody(k) : k \in KeyIndexes \cup {-1}}

\* lines 463-469, c.ShouldBindJSON(&req): an empty body is an error; a JSON
\* object fills the fields it names and leaves KeyIndex, which has no
\* binding tag, at its zero value when key_index is absent
ShouldBindJSON(body) ==
  IF body.kind = "empty" THEN [err |-> TRUE, KeyIndex |-> 0]
  ELSE IF body.kind = "key" THEN [err |-> FALSE, KeyIndex |-> body.key_index]
  ELSE [err |-> FALSE, KeyIndex |-> 0]

\* lines 466-469: req.KeyIndex after the binding, -1 when it failed
BoundKeyIndex(body) ==
  IF ShouldBindJSON(body).err THEN -1 ELSE ShouldBindJSON(body).KeyIndex

\* lines 480-481 and 488-489: the reset of one key slot, of slot 0 for a
\* channel with a single key
ResetOneSlot(channelID, body, isMultiKey) ==
  LET keyIndex == IF BoundKeyIndex(body) >= 0 THEN BoundKeyIndex(body) ELSE 0
  IN /\ resetNext = -1
     /\ (BoundKeyIndex(body) >= 0 \/ ~isMultiKey)
     /\ AllIdle
     /\ channelRateLimitStore' =
          ResetChannelRateLimit(channelRateLimitStore, channelID, keyIndex)
     /\ rlLog' = [op |-> "resetreq", body |-> body, isMultiKey |-> isMultiKey,
                  channelID |-> channelID, keyIndex |-> keyIndex,
                  key |-> getChannelRateLimitKey(channelID, keyIndex)]
     /\ rlHist' = [rlHist EXCEPT !.cyc = -1]
     /\ UNCHANGED <<channelRateLimitMutex, minuteNow, goroutine, policy>>
     /\ UNCHANGED <<mwVars, qcVars>>

\* lines 483-485: no key_index in the request, the loop over the slots
\* begins
ResetAllBegin(body) ==
  /\ resetNext = -1
  /\ BoundKeyIndex(body) < 0
  /\ resetNext' = IF 0 < MultiKeySize THEN 0 ELSE -1
  /\ rlLog' = [op |-> "resetall", step |-> "begin", body |-> body,
               isMultiKey |-> TRUE]
  /\ UNCHANGED <<inflight, admitted>>
  /\ UNCHANGED <<channelRateLimitStore, channelRateLimitMutex, minuteNow,
                 goroutine, policy, rlHist>>
  /\ UNCHANGED mwVars

\* lines 485-487: one turn of the loop, a call of service.
\* ResetChannelRateLimit from Lock to Unlock
ResetAllStep(channelID) ==
  /\ resetNext >= 0
  /\ channelRateLimitMutex = ""
  /\ channelRateLimitStore' =
       ResetChannelRateLimit(channelRateLimitStore, channelID, resetNext)
  /\ resetNext' = IF NextSlot(resetNext) < MultiKeySize
                  THEN NextSlot(resetNext) ELSE -1
  /\ rlLog' = [op |-> "resetall", step |-> "slot", keyIndex |-> resetNext,
               key |-> getChannelRateLimitKey(channelID, resetNext)]
  /\ UNCHANGED <<inflight, admitted>>
  /\ UNCHANGED <<channelRateLimitMutex, minuteNow, goroutine, policy, rlHist>>
  /\ UNCHANGED mwVars

\* the rate limiter's clock advances by a minute
RateTick ==
  /\ minuteNow < MaxMinute
  /\ minuteNow' = minuteNow + 1
  /\ rlLog' = [op |-> "tick"]
  /\ rlHist' = [rlHist EXCEPT !.cyc = 0, !.R = 0]
  /\ UNCHANGED <<channelRateLimitStore, channelRateLimitMutex, goroutine, policy>>
  /\ UNCHANGED <<mwVars, qcVars>>

(***************************************************************************)
(* Concurrent requests on key slot 0 of the channel, each a check followed *)
(* by an increment when the check allows.  Every goroutine samples the     *)
(* clock before it asks for the lock; GetChannelRateLimitInfo releases the *)
(* lock before CheckChannelRateLimit compares the counts of the record it  *)
(* returned.                                                               *)
(***************************************************************************)
ConcChannel == CHOOSE c \in ChannelIDs : TRUE
ConcKey == getChannelRateLimitKey(ConcChannel, 0)

ConcLog(g, verdict) ==
  [op |-> "request", g |-> g, allowed |-> verdict.allowed,
   axis |-> verdict.axis, count |-> verdict.count, limit |-> verdict.limit]

Accept(h, minute, day) ==
  [h EXCEPT !.accMinute[minute] = @ + 1, !.accDay[day] = @ + 1]

\* lines 100-105 and 38-40: the early return, else the labels of the check
CheckBegin(g) ==
  /\ goroutine[g].pc = "idle"
  /\ CountBelow(ConcKey, MaxCount)
  /\ rlHist.accMinute[MinuteKey(minuteNow)] <= MaxCount
  /\ IF policy.rpm <= 0 /\ policy.rpd <= 0
     THEN /\ goroutine' = [goroutine EXCEPT ![g] =
                [pc |-> "increment", minute |-> MinuteKey(minuteNow),
                 day |-> DayKey(minuteNow)]]
          /\ rlHist' = Accept(rlHist, MinuteKey(minuteNow), DayKey(minuteNow))
          /\ rlLog' = ConcLog(g, Allowed)
     ELSE /\ goroutine' = [goroutine EXCEPT ![g] =
                [pc |-> "getinfo", minute |-> MinuteKey(minuteNow),
                 day |-> DayKey(minuteNow)]]
          /\ UNCHANGED <<rlHist, rlLog>>
  /\ UNCHANGED <<channelRateLimitStore, channelRateLimitMutex, minuteNow, policy>>
  /\ UNCHANGED <<mwVars, qcVars>>

\* lines 42-95: GetChannelRateLimitInfo from Lock to the deferred Unlock
CheckGetInfo(g) ==
  /\ goroutine[g].pc = "getinfo"
  /\ channelRateLimitMutex = ""
  /\ channelRateLimitStore' =
       GetChannelRateLimitInfo(channelRateLimitStore, ConcChannel, 0,
          policy.rpm, policy.rpd, goroutine[g].minute, goroutine[g].day)
  /\ goroutine' = [goroutine EXCEPT ![g].pc = "compare_rpm"]
  /\ UNCHANGED <<channelRateLimitMutex, minuteNow, policy, rlLog, rlHist>>
  /\ UNCHANGED <<mwVars, qcVars>>

\* lines 108-110: the read of info.RPMCount, outside the lock
CheckCompareRPM(g) ==
  /\ goroutine[g].pc = "compare_rpm"
  /\ \E v \in {LimitVerdict(channelRateLimitStore[ConcKey], policy.rpm, 0)} :
    /\ IF v.allowed
       THEN /\ goroutine' = [goroutine EXCEPT ![g].pc = "compare_rpd"]
            /\ UNCHANGED rlLog
       ELSE /\ goroutine' = [goroutine EXCEPT ![g] = Idle]
            /\ rlLog' = ConcLog(g, v)
    /\ UNCHANGED <<channelRateLimitStore, channelRateLimitMutex, minuteNow,
                   policy, rlHist>>
    /\ UNCHANGED <<mwVars, qcVars>>

\* lines 113-117: the read of info.RPDCount, outside the lock
CheckCompareRPD(g) ==
  /\ goroutine[g].pc = "compare_rpd"
  /\ \E v \in {LimitVerdict(channelRateLimitStore[ConcKey], 0, policy.rpd)} :
    /\ IF v.allowed
       THEN /\ goroutine' = [goroutine EXCEPT ![g].pc = "increment"]
            /\ rlHist' = Accept(rlHist, goroutine[g].minute, goroutine[g].day)
       ELSE /\ goroutine' = [goroutine EXCEPT ![g] = Idle]
            /\ UNCHANGED rlHist
    /\ rlLog' = ConcLog(g, v)
    /\ UNCHANGED <<channelRateLimitStore, channelRateLimitMutex, minuteNow, policy>>
    /\ UNCHANGED <<mwVars, qcVars>>

\* lines 122-124: the labels of the increment
IncrementBegin(g) ==
  /\ goroutine[g].pc = "increment"
  /\ goroutine' = [goroutine EXCEPT ![g] =
        [pc |-> "inc_lock", minute |-> MinuteKey(minuteNow),
         day |-> DayKey(minuteNow)]]
  /\ UNCHANGED <<channelRateLimitStore, channelRateLimitMutex, minuteNow,
                 policy, rlLog, rlHist>>
  /\ UNCHANGED <<mwVars, qcVars>>

\* lines 126-154: Lock, the record, its rollover
IncrementLock(g) ==
  /\ goroutine[g].pc = "inc_lock"
  /\ channelRateLimitMutex = ""
  /\ channelRateLimitMutex' = g
  /\ channelRateLimitStore' =
       IncrementPrepare(channelRateLimitStore, ConcChannel, 0, policy.rpm,
                        policy.rpd, goroutine[g].minute, goroutine[g].day)
  /\ goroutine' = [goroutine EXCEPT ![g].pc = "inc_add"]
  /\ UNCHANGED <<minuteNow, policy, rlLog, rlHist>>
  /\ UNCHANGED <<mwVars, qcVars>>

\* lines 157-164: the two increments and the deferred Unlock
IncrementAdd(g) ==
  /\ goroutine[g].pc = "inc_add"
  /\ channelRateLimitMutex = g
  /\ channelRateLimitMutex' = ""
  /\ channelRateLimitStore' =
       IncrementCounts(channelRateLimitStore, ConcChannel, 0)
  /\ goroutine' = [goroutine EXCEPT ![g] = Idle]
  /\ UNCHANGED <<minuteNow, policy, rlLog, rlHist>>
  /\ UNCHANGED <<mwVars, qcVars>>

\* ResetChannelRateLimit, lines 194-201, from Lock to Unlock, while requests
\* are under way.  A check that compares holds the record it was returned,
\* and the delete leaves that record as it was: the comparison reads what it
\* would have read just before the reset, so the reset is taken when no
\* comparison is under way.
ConcReset ==
  /\ channelRateLimitMutex = ""
  /\ \A g \in Goroutines : goroutine[g].pc \notin {"compare_rpm", "compare_rpd"}
  /\ channelRateLimitStore[ConcKey] # Nil
  /\ channelRateLimitStore' =
       ResetChannelRateLimit(channelRateLimitStore, ConcChannel, 0)
  /\ rlLog' = [op |-> "reset", key |-> ConcKey]
  /\ UNCHANGED <<channelRateLimitMutex, minuteNow, goroutine, policy, rlHist>>
  /\ UNCHANGED <<mwVars, qcVars>>

(***************************************************************************)
(* Initial states and specifications.                                      *)
(***************************************************************************)
\* usedCount values the operator sends
UsedCountInputs == {1}

\* The requests of the quota scenarios: the standard user on the legacy key
\* and on a channel, with an explicit positive limit.
QuotaRequests ==
  [tok : {TokU1}, channelId : ChannelIds, enabledHdr : {""},
   limitHdr : {[ok |-> TRUE, n |-> n] : n \in 1 .. MaxLimit}]

\* The requests of the classification scenarios: every credential and every
\* channel policy, on the legacy key.
ClassRequests ==
  {q \in [tok : Tokens, channelId : {""}, enabledHdr : EnabledHeaders,
          limitHdr : {h \in LimitHeaders : h.n <= 1}] :
     \/ q.tok \in UserTokens /\ (q.limitHdr.ok \/ q.enabledHdr = "false")
     \/ q.enabledHdr = "" /\ q.limitHdr = [ok |-> TRUE, n |-> 1]}

InitStore ==
  /\ phase = "boot"
  /\ RedisURL = ""
  /\ RedisToken = ""
  /\ MonthlyQuota = DefaultMonthlyQuota
  /\ Enabled = FALSE
  /\ useLocalRedis = FALSE
  /\ ExternalUserAuthEnabled = FALSE
  /\ now = 0
  /\ userStore = [u \in UserIds |->
        IF u = "u2" THEN ExternalUserData("u2", "bob@x", "bob", TRUE, VipUntil)
        ELSE ExternalUserData(u, "alice@x", "alice", FALSE, 0)]
  /\ quotaStore = [k \in QuotaKeys |-> Nil]
  /\ log = [op |-> "none"]
  /\ hist = FreshHist
  /\ inflight = [h \in Handlers |-> NotInFlight]
  /\ admitted = 0
  /\ resetNext = -1

InitRate ==
  /\ channelRateLimitStore = [k \in RateKeys |-> Nil]
  /\ channelRateLimitMutex = ""
  /\ minuteNow = 0
  /\ goroutine = [g \in Goroutines |-> Idle]
  /\ rlLog = [op |-> "none"]
  /\ rlHist = FreshRateHist

NoPolicy == [rpm |-> 0, rpd |-> 0]

\* a request of the set reqs, with the responses uresps to the user lookup
\* and every response to the quota read and write
Serve(reqs, uresps) ==
  \E q \in reqs :
    \E ur \in UserResponses(q.tok, q.channelId, q.enabledHdr, q.limitHdr, uresps) :
      \E qr \in QuotaResponses(q.tok, q.channelId, q.enabledHdr, q.limitHdr, ur) :
        \E wr \in SaveResponses(q.tok, q.channelId, q.enabledHdr, q.limitHdr, ur, qr) :
          ExternalUserAuth(q.tok, q.channelId, q.enabledHdr, q.limitHdr, ur, qr, wr)

Boot == \E i \in InitInputs : InitExternalUserAuth(i[1], i[2], i[3])

Operator(users, resets) ==
  \E u \in users, n \in UsedCountInputs, reset \in resets,
     wr \in WriteResponses(FALSE) :
    UpdateExternalUserQuota(u, n, reset, wr)

\* Quota scenarios: the requests of the standard user on the watched key,
\* the operator's updates of that user, the clock.
Init ==
  /\ InitStore
  /\ watch \in {QuotaKey("u1", c) : c \in ChannelIds}
  /\ InitRate
  /\ policy = NoPolicy

Next ==
  \/ Boot
  \/ Serve({q \in QuotaRequests : QuotaKey(q.tok.userId, q.channelId) = watch},
           {"ok", "neterr"})
  \/ Operator({"u1"}, BOOLEAN)
  \/ Tick

Spec == Init /\ [][Next]_vars

\* Classification scenarios: every credential and channel policy, the
\* operator's updates of the VIP user's record, the clock.
InitClass ==
  /\ InitStore
  /\ watch = QuotaKey("u1", "c1")
  /\ InitRate
  /\ policy = NoPolicy

NextClass ==
  \/ Boot
  \/ Serve(ClassRequests, {"ok", "neterr"})
  \/ Operator({"u2"}, {FALSE})
  \/ \E qr \in ReadResponses(useLocalRedis) : QuotaInfo("u2", "ok", qr)
  \/ Tick

SpecClass == InitClass /\ [][NextClass]_vars

\* The requests of the key scenarios: the standard user on the legacy key
\* and on two channels, with the largest limit.
KeyRequests ==
  [tok : {TokU1}, channelId : KeyChannelIds, enabledHdr : {""},
   limitHdr : {[ok |-> TRUE, n |-> MaxLimit]}]

\* Key scenarios: the standard user's requests on all of its keys in one
\* run, the operator's updates of that user, the clock.
InitKeys ==
  /\ InitStore
  /\ watch = QuotaKey("u2", "c1")
  /\ InitRate
  /\ policy = NoPolicy

NextKeys ==
  \/ Boot
  \/ Serve(KeyRequests, {"ok"})
  \/ Operator({"u1"}, {FALSE})
  \/ \E qr \in ReadResponses(useLocalRedis) : QuotaInfo("u1", "ok", qr)
  \/ Tick

SpecKeys == InitKeys /\ [][NextKeys]_vars

\* Status scenarios: every configuration, the requests of the standard user
\* and of a caller without credential, the status endpoint, the clock.
StatusRequests ==
  [tok : {NoToken, TokU1}, channelId : {""}, enabledHdr : {""},
   limitHdr : {[ok |-> TRUE, n |-> MaxLimit]}]

InitStatus ==
  /\ InitStore
  /\ watch = QuotaKey("u2", "c1")
  /\ InitRate
  /\ policy = NoPolicy

NextStatus ==
  \/ Boot
  \/ Serve(StatusRequests, {"ok"})
  \/ GetExternalUserAuthStatus
  \/ Tick

SpecStatus == InitStatus /\ [][NextStatus]_vars

\* The requests of the caller scenarios: the standard user and two callers
\* whose credentials carry an e-mail and no user id, with and without
\* channel.
CallerRequests ==
  [tok : {TokU1, TokMailCarol, TokMailDave}, channelId : ChannelIds,
   enabledHdr : {""}, limitHdr : {[ok |-> TRUE, n |-> MaxLimit]}]

\* Caller scenarios: the requests of several callers in one run, the clock.
InitCallers ==
  /\ InitStore
  /\ watch = QuotaKey("u2", "c1")
  /\ InitRate
  /\ policy = NoPolicy

NextCallers ==
  \/ Boot
  \/ Serve(CallerRequests, {"ok"})
  \/ Tick

SpecCallers == InitCallers /\ [][NextCallers]_vars

\* The requests of the transport scenarios: the standard user on the legacy
\* key with the limit 1.
TransportRequests ==
  [tok : {TokU1}, channelId : {""}, enabledHdr : {""},
   limitHdr : {[ok |-> TRUE, n |-> 1]}]

\* the VIP grants of the transport scenarios
Grant ==
  \E isVIP \in BOOLEAN, ur \in ReadResponses(useLocalRedis),
     wr \in WriteResponses(useLocalRedis) :
    SetUserVIP("u1", isVIP, VipUntil, ur, wr)

\* Transport scenarios: requests and VIP grants under every answer of the
\* store's transport, the clock.
InitTransport ==
  /\ InitStore
  /\ watch = QuotaKey("u2", "c1")
  /\ InitRate
  /\ policy = NoPolicy

\* an operator's update that sends a negative usedCount
NegativeUpdate ==
  \E wr \in WriteResponses(FALSE) : UpdateExternalUserQuota("u1", -1, FALSE, wr)

\* an operator's batch update that sends a negative usedCount
NegativeBatch ==
  \E wr1, wr2 \in WriteResponses(FALSE) :
    BatchUpdateQuota(<<"u2", "u1">>, -1, FALSE, <<wr1, wr2>>)

NextTransport ==
  \/ Boot
  \/ Serve(TransportRequests, {"ok", "neterr", "errjson", "garbage"})
  \/ Grant
  \/ NegativeUpdate
  \/ NegativeBatch
  \/ Tick

SpecTransport == InitTransport /\ [][NextTransport]_vars

\* The key slots and the limits of the dashboard scenarios.
InfoSlots == {<<1, 0>>, <<1, 1>>}
InfoLimits == {<<MaxRate, MaxRate>>, <<1, 0>>, <<-1, 1>>}
InfoMaxCount == MaxRate

\* Dashboard scenarios: checks, increments, resets and the three queries on
\* several key slots, one call at a time, the clock.
InitInfo ==
  /\ InitStore
  /\ watch = QuotaKey("u1", "")
  /\ InitRate
  /\ policy = NoPolicy

NextInfo ==
  \/ \E sl \in InfoSlots, l \in InfoLimits : DoCheck(sl[1], sl[2], l[1], l[2])
  \/ \E sl \in InfoSlots :
       /\ CountBelow(getChannelRateLimitKey(sl[1], sl[2]), InfoMaxCount)
       /\ DoIncrement(sl[1], sl[2], MaxRate, MaxRate)
  \/ \E sl \in InfoSlots : DoReset(sl[1], sl[2])
  \/ \E sl \in InfoSlots, l \in InfoLimits : DoGetInfo(sl[1], sl[2], l[1], l[2])
  \/ DoGetAll
  \/ \E c \in InfoChannelIDs : DoGetByChannelID(c)
  \/ RateTick

SpecInfo == InitInfo /\ [][NextInfo]_vars

\* Reset scenarios: the reset endpoint of the multi-key channel, with
\* increments and queries of the channel coming in between the turns of its
\* loop.
InitResetAll ==
  /\ InitStore
  /\ watch = QuotaKey("u1", "")
  /\ InitRate
  /\ policy = NoPolicy

NextResetAll ==
  \/ \E body \in Bodies, multi \in BOOLEAN :
       ResetOneSlot(ConcChannel, body, multi)
  \/ \E body \in Bodies : ResetAllBegin(body)
  \/ ResetAllStep(ConcChannel)
  \/ \E k \in KeyIndexes :
       /\ CountBelow(getChannelRateLimitKey(ConcChannel, k), MaxRate)
       /\ DoIncrement(ConcChannel, k, MaxRate, MaxRate)
  \/ DoGetByChannelID(ConcChannel)
  \/ RateTick

SpecResetAll == InitResetAll /\ [][NextResetAll]_vars

\* Concurrent quota scenarios: at most MaxInFlight requests of the standard
\* user on one channel with the limit MaxLimit, their steps interleaved,
\* within one month and without operator.
InitQuotaConc ==
  /\ InitStore
  /\ watch = QuotaKey("u2", "c1")
  /\ InitRate
  /\ policy = NoPolicy

NextQuotaConc ==
  \/ Boot
  \/ \E h \in Handlers : QuotaBegin(h)
  \/ \E h \in Handlers : QuotaFinish(h)

SpecQuotaConc == InitQuotaConc /\ [][NextQuotaConc]_vars

\* Rate limiter calls made one at a time on key slot 0.
InitRateSeq ==
  /\ InitStore
  /\ watch = QuotaKey("u1", "")
  /\ InitRate
  /\ policy = NoPolicy

NextRate ==
  \/ \E c \in ChannelIDs, rpm \in RateLimits, rpd \in RateLimits :
       DoCheck(c, 0, rpm, rpd)
  \/ \E c \in ChannelIDs, rpm \in RateLimits, rpd \in RateLimits :
       DoIncrement(c, 0, rpm, rpd)
  \/ \E c \in ChannelIDs, rpm \in RateLimits, rpd \in RateLimits :
       DoCycle(c, 0, rpm, rpd)
  \/ \E c \in ChannelIDs : DoReset(c, 0)
  \/ RateTick

SpecRate == InitRateSeq /\ [][NextRate]_vars

\* Concurrent requests under one channel policy.
InitRateConc ==
  /\ InitStore
  /\ watch = QuotaKey("u1", "")
  /\ InitRate
  /\ policy \in [rpm : RateLimits, rpd : RateLimits]

NextRateConc ==
  \/ \E g \in Goroutines : CheckBegin(g)
  \/ \E g \in Goroutines : CheckGetInfo(g)
  \/ \E g \in Goroutines : CheckCompareRPM(g)
  \/ \E g \in Goroutines : CheckCompareRPD(g)
  \/ \E g \in Goroutines : IncrementBegin(g)
  \/ \E g \in Goroutines : IncrementLock(g)
  \/ \E g \in Goroutines : IncrementAdd(g)
  \/ RateTick

SpecRateConc == InitRateConc /\ [][NextRateConc]_vars

\* Concurrent requests under one channel policy within one minute and one
\* day: the clock stands still.
NextRateWindow ==
  \/ \E g \in Goroutines : CheckBegin(g)
  \/ \E g \in Goroutines : CheckGetInfo(g)
  \/ \E g \in Goroutines : CheckCompareRPM(g)
  \/ \E g \in Goroutines : CheckCompareRPD(g)
  \/ \E g \in Goroutines : IncrementBegin(g)
  \/ \E g \in Goroutines : IncrementLock(g)
  \/ \E g \in Goroutines : IncrementAdd(g)

SpecRateWindow == InitRateConc /\ [][NextRateWindow]_vars

\* Concurrent requests and resets under the policy of one request a minute and
\* MaxRate a day, the clock.
InitRateAll ==
  /\ InitStore
  /\ watch = QuotaKey("u1", "")
  /\ InitRate
  /\ policy = [rpm |-> 1, rpd |-> MaxRate]

NextRateAll ==
  \/ NextRateConc
  \/ ConcReset

SpecRateAll == InitRateAll /\ [][NextRateAll]_vars


(***************************************************************************)
(* Properties of the quota scenarios (specification Spec).                 *)
(***************************************************************************)
\* the logged operation l is a request that reached the limit comparison on
\* the watched key
Decision(l) ==
  /\ l.op = "request"
  /\ l.quotaReads = 1
  /\ l.status # StatusInternalServerError
  /\ QuotaKey(l.userId, l.channelId) = watch

\* C1: for a standard user and a channel with quota enabled and limit L > 0,
\* with requests handled one at a time within one month on a working store,
\* the k-th request is admitted with used = k for k = 1..L, and every later
\* request is rejected as QuotaExceeded reporting used = L and total = L.
C1_SequentialDebits ==
  (Decision(log) /\ hist.n >= 1) =>
     IF hist.n <= hist.L
     THEN /\ log.status = StatusOK
          /\ log.next
          /\ log.qstatus = "active"
          /\ log.used = hist.n
          /\ log.total = hist.L
     ELSE /\ log.status = StatusTooManyRequests
          /\ ~log.next
          /\ log.used = hist.L
          /\ log.total = hist.L

\* the request after the MaxLimit-th of a sequence was rejected
C1_Witness ==
  /\ Decision(log)
  /\ hist.L = MaxLimit
  /\ hist.n = MaxLimit + 1
  /\ log.status = StatusTooManyRequests
  /\ log.used = MaxLimit


\* C2: after the requests on a non-empty channel have exhausted limit L, a
\* successful operator reset of the user makes the next request on that
\* channel admitted with used = 1.
C2_ResetReadmits ==
  [][(/\ hist.exh
      /\ hist.rst
      /\ Decision(log')
      /\ log'.channelId # ""
      /\ log'.qresp = "ok"
      /\ ~log'.saveErr)
     => (log'.status = StatusOK /\ log'.used = 1)]_vars

\* C4 as stated, second half: after a request rolled a stale record over and
\* saved count 1, a second request in the same month persists count 2.
C4_SecondPersistsTwo ==
  [][(/\ hist.rolled = "saved"
      /\ Decision(log')
      /\ log'.quotaLimit > 0
      /\ log'.qresp = "ok"
      /\ ~log'.saveErr)
     => quotaStore'[watch] = UserQuota(2, MonthKey(now), quotaStore[watch].LastResetAt)]_vars

\* a request that read a record of an earlier month is admitted with used 1
\* and persists count 1 under the current month
RolloverFirst ==
  (Decision(log) /\ hist.rolled # "no" /\ log.quotaLimit > 0) =>
     /\ log.status = StatusOK
     /\ log.used = 1
     /\ ~log.saveErr => quotaStore[watch] = UserQuota(1, MonthKey(now), now)

\* the next request of that month, when admitted, persists count 2
RolloverSecond ==
  (/\ hist.rolled = "saved"
   /\ Decision(log')
   /\ log'.qresp = "ok"
   /\ log'.status = StatusOK
   /\ ~log'.saveErr)
  => /\ log'.used = 2
     /\ quotaStore'[watch] =
          UserQuota(2, MonthKey(now), quotaStore[watch].LastResetAt)

\* C4: a stored record whose month differs from the current month counts as
\* zero: with limit > 0 the request is admitted and persists count 1 under
\* the current month, and a second request in the same month that is
\* admitted persists count 2.
C4_Rollover == []RolloverFirst /\ [][RolloverSecond]_vars

\* count 2 stored under a month that began with a rollover
C4_Witness ==
  /\ Decision(log)
  /\ log.status = StatusOK
  /\ log.used = 2
  /\ quotaStore[watch] # Nil
  /\ quotaStore[watch].UsedCount = 2
  /\ quotaStore[watch].MonthKey = MonthKey(now)
  /\ quotaStore[watch].MonthKey > 0
  /\ quotaStore[watch].LastResetAt > 0
  /\ MonthKey(quotaStore[watch].LastResetAt) = MonthKey(now)
  /\ hist.n = 2

\* C10: a failed quota read (connection error, non-2xx REST status,
\* undecodable body) rejects the request with a server error and the request
\* is never admitted.
C10_ReadFailureRejects ==
  (/\ log.op = "request"
   /\ log.quotaReads = 1
   /\ log.qresp \in {"neterr", "errjson", "garbage"})
  => /\ ~log.next
     /\ log.status \in {StatusInternalServerError, StatusServiceUnavailable}


(***************************************************************************)
(* Properties of the classification scenarios (specification SpecClass).   *)
(***************************************************************************)
\* the last request's credential resolved to the stored record of a user
\* whose VIP flag is set and whose VIP expiry lies in the future
ResolvedVip ==
  /\ log.op = "request"
  /\ log.userReads = 1
  /\ ~log.fallback
  /\ userStore[log.tok.userId].IsVIP
  /\ userStore[log.tok.userId].VIPExpiresAt > now

\* C3: a request whose credential resolves to a user record with the VIP
\* flag set and a VIP expiry strictly in the future is admitted whatever the
\* stored count and the channel limit, reads and writes no quota record, and
\* is annotated status vip, used 0, total -1, remaining -1.
C3_VipBypass ==
  ResolvedVip =>
     /\ log.status = StatusOK
     /\ log.next
     /\ log.quotaReads = 0
     /\ log.quotaWrites = 0
     /\ log.qstatus = "vip"
     /\ log.used = 0
     /\ log.total = -1
     /\ log.remaining = -1

\* a VIP admitted on a quota-enabled channel whose stored count has reached
\* the channel's limit
C3_Witness ==
  /\ ResolvedVip
  /\ log.status = StatusOK
  /\ log.tok.userId = "u2"
  /\ log.quotaLimit > 0
  /\ quotaStore[QuotaKey("u2", log.channelId)] # Nil
  /\ quotaStore[QuotaKey("u2", log.channelId)].MonthKey = MonthKey(now)
  /\ quotaStore[QuotaKey("u2", log.channelId)].UsedCount >= log.quotaLimit

\* the last request carried a decodable three-segment credential whose
\* numeric exp claim is earlier than the current time
ExpiredRequest ==
  /\ log.op = "request"
  /\ ~log.tok.empty
  /\ log.tok.segs = 3
  /\ log.tok.dec
  /\ log.tok.expKind = "num"
  /\ log.tok.exp < now

\* C9: a credential whose exp claim is earlier than the current time is
\* rejected, by an enabled core as ExpiredCredential with 401, and no user
\* read, quota read or quota write is made for the request.
C9_ExpiredRejected ==
  ExpiredRequest =>
     /\ ~log.next
     /\ log.userReads = 0
     /\ log.quotaReads = 0
     /\ log.quotaWrites = 0
     /\ Enabled => (log.status = StatusUnauthorized /\ log.reason = "expired")

\* an enabled core rejected a credential that expired one second ago
C9_Witness ==
  /\ ExpiredRequest
  /\ Enabled
  /\ log.tok.exp + 1 = now
  /\ log.status = StatusUnauthorized
  /\ log.reason = "expired"
  /\ log.userReads = 0

\* the count a request finds under a key: that of the stored record of the
\* current month, else 0
StoredCount(key) ==
  IF quotaStore[key] = Nil \/ quotaStore[key].MonthKey # MonthKey(now)
  THEN 0
  ELSE quotaStore[key].UsedCount

\* C14: when the quota write of a debit fails, the request is still
\* admitted with status active and used = the count read + 1, the stored
\* records are unchanged, and the next request on the key is decided against
\* the same stored count: when admitted it reports the same used value.
C14_FailedWriteAdmits ==
  /\ [][(log'.op = "request" /\ log'.saveErr) =>
          /\ log'.status = StatusOK
          /\ log'.next
          /\ log'.qstatus = "active"
          /\ log'.qresp = "ok" =>
                log'.used = StoredCount(QuotaKey(log'.userId, log'.channelId)) + 1
          /\ quotaStore' = quotaStore]_vars
  /\ [][(/\ log.op = "request" /\ log.saveErr /\ log.qresp = "ok"
          /\ log'.op = "request" /\ log'.status = StatusOK
          /\ log'.qresp = "ok"
          /\ log'.userId = log.userId /\ log'.channelId = log.channelId) =>
          log'.used = log.used]_vars

\* a request was admitted with used = 2 by a store that holds the count 1
\* and refused the request's write
C14_Witness ==
  /\ log.op = "request"
  /\ log.saveErr
  /\ log.status = StatusOK
  /\ log.used = 2
  /\ StoredCount(QuotaKey(log.userId, log.channelId)) = 1

\* the keys of the standard user, written out
LegacyKey == "quota:u1"
ChannelKey(c) == IF c = "c1" THEN "quota:u1:channel:c1" ELSE "quota:u1:channel:c2"
TouchedKey(l) == IF l.channelId = "" THEN LegacyKey ELSE ChannelKey(l.channelId)

\* C16: a debit of user U on a channel C reads and writes the record keyed
\* (U, C) only, and a debit without a channel id the legacy record of U
\* only: every other record is unchanged, the count reported is that of the
\* touched record plus one, and the touched record holds it afterwards.
C16_DebitTouchesOneKey ==
  [][(log'.op = "request" /\ log'.status = StatusOK /\ log'.quotaWrites = 1
      /\ log'.qresp = "ok") =>
       /\ \A k \in DOMAIN quotaStore \ {TouchedKey(log')} :
             quotaStore'[k] = quotaStore[k]
       /\ log'.used = StoredCount(TouchedKey(log')) + 1
       /\ ~log'.saveErr => quotaStore'[TouchedKey(log')].UsedCount = log'.used
    ]_vars

\* a first debit on channel c1 while the legacy record and the record of
\* channel c2 hold counts of their own
C16_Witness ==
  /\ log.op = "request"
  /\ log.status = StatusOK
  /\ ~log.saveErr
  /\ log.channelId = "c1"
  /\ log.used = 1
  /\ StoredCount(LegacyKey) >= 1
  /\ StoredCount(ChannelKey("c2")) = 2
  /\ quotaStore[ChannelKey("c1")].UsedCount = 1

\* C27: reading a quota record writes nothing: GetExternalUserQuotaInfo and
\* every request that does not debit leave the store as it was, a read of an
\* absent or stale record reports the count 0, and a key that had no record
\* gets its first one from that key's first admitted debit only.
C27_ReadsWriteNothing ==
  /\ [][log'.op = "quotainfo" =>
          /\ quotaStore' = quotaStore
          /\ (~log'.err /\ ~log'.isVIP /\ log'.qresp = "ok") =>
                log'.used = StoredCount(LegacyKey)]_vars
  /\ [][(log'.op = "request" /\ log'.quotaWrites = 0) =>
          quotaStore' = quotaStore]_vars
  /\ [][\A k \in DOMAIN quotaStore :
          (/\ log'.op \in {"request", "quotainfo"}
           /\ quotaStore[k] = Nil
           /\ quotaStore'[k] # Nil) =>
             /\ log'.op = "request"
             /\ log'.status = StatusOK
             /\ log'.used = 1
             /\ k = TouchedKey(log')]_vars

\* a query that reported the count 0 for a record of an earlier month, which
\* is still stored with its old count
C27_Witness ==
  /\ log.op = "quotainfo"
  /\ ~log.err
  /\ log.qresp = "ok"
  /\ log.used = 0
  /\ StoredStale(LegacyKey)
  /\ quotaStore[LegacyKey].UsedCount >= 1

\* C29: on every request admitted with status active the annotation
\* satisfies used + remaining = total, 1 <= used <= total and remaining >= 0,
\* where total is the effective limit of the request.
C29_ActiveAnnotation ==
  (log.op = "request" /\ log.qstatus = "active") =>
     /\ log.total = log.quotaLimit
     /\ log.used + log.remaining = log.total
     /\ 1 <= log.used
     /\ log.used <= log.total
     /\ log.remaining >= 0

LapsedVip(userId) ==
  /\ userStore[userId].IsVIP
  /\ userStore[userId].VIPExpiresAt <= now
  /\ userStore[userId].Username # "admin"

\* C31: a resolved user whose VIP flag is set, whose VIP expiry is not
\* strictly in the future and who is not the administrator gets no bypass:
\* the request is decided by the channel policy and the quota check as for
\* a user without the flag, and is marked external_user_vip = false when
\* admitted; GetExternalUserQuotaInfo reports the user as not VIP.
C31_LapsedVipNoBypass ==
  /\ (/\ log.op = "request"
      /\ Enabled
      /\ log.userReads = 1
      /\ ~log.fallback
      /\ LapsedVip(log.tok.userId)) =>
        /\ log.qstatus # "vip"
        /\ log.vip # "true"
        /\ log.next => log.vip = "false"
        /\ IF log.enabledHdr = "false"
           THEN log.qstatus = "disabled" /\ log.quotaReads = 0
           ELSE IF log.quotaLimit = -1
           THEN log.qstatus = "unlimited" /\ log.quotaReads = 0
           ELSE /\ log.quotaReads = 1
                /\ log.qstatus \in {"active", "none"}
                /\ log.status \in {StatusOK, StatusTooManyRequests,
                                   StatusInternalServerError}
  /\ (/\ log.op = "quotainfo"
      /\ ~log.err
      /\ LapsedVip(log.userId)) =>
        (~log.isVIP /\ log.total = MonthlyQuota)

\* a request of the user whose VIP expiry is the present second, debited
\* on a channel with a positive limit and marked as not VIP
C31_Witness ==
  /\ log.op = "request"
  /\ log.tok = TokU2
  /\ ~log.fallback
  /\ LapsedVip("u2")
  /\ userStore["u2"].VIPExpiresAt = now
  /\ log.status = StatusOK
  /\ log.qstatus = "active"
  /\ log.used = 1
  /\ log.vip = "false"

\* C33: every stored quota record has a consumed count >= 0, whatever
\* debits, rejections, month rollovers and operator updates came before.
C33_CountsNonNegative ==
  \A k \in DOMAIN quotaStore :
    quotaStore[k] # Nil => quotaStore[k].UsedCount >= 0

\* C34: a reset request that does not specify key_index (no body, or a JSON
\* body without the field) resets every key slot of the channel: it begins
\* the loop over all slots of a multi-key channel and resets slot 0 of a
\* single-key channel; a request with key_index = k >= 0 resets slot k only.
C34_ResetWithoutKeyIndex ==
  /\ (rlLog.op = "resetreq" /\ rlLog.body.kind # "key") =>
        (~rlLog.isMultiKey /\ rlLog.keyIndex = 0)
  /\ (rlLog.op = "resetreq" /\ rlLog.body.kind = "key"
        /\ rlLog.body.key_index >= 0) =>
        rlLog.keyIndex = rlLog.body.key_index
  /\ (rlLog.op = "resetall" /\ rlLog.step = "begin") =>
        (rlLog.body.kind # "key" \/ rlLog.body.key_index < 0) /\ resetNext = 0

\* the increments of the present window that are accepted and not finished
PendingIncrements ==
  Cardinality({g \in Goroutines :
                 goroutine[g].pc \in {"increment", "inc_lock", "inc_add"}})

\* C35: no increment is lost: within one minute label and one day label and
\* without reset, under every interleaving of concurrent calls of
\* IncrementChannelRateLimit on one key slot, the minute count and the day
\* count both equal the number of calls that have finished.
C35_NoLostIncrement ==
  LET finished == rlHist.accMinute[MinuteKey(minuteNow)] - PendingIncrements
      info == channelRateLimitStore[ConcKey]
  IN /\ rlHist.accDay[DayKey(minuteNow)] = rlHist.accMinute[MinuteKey(minuteNow)]
     /\ IF info = Nil THEN finished = 0
        ELSE info.RPMCount = finished /\ info.RPDCount = finished

\* one increment holds the lock while the other waits for it, after a first
\* increment has finished; and two finished increments
C35_Witness ==
  /\ goroutine["g1"].pc = "inc_lock"
  /\ goroutine["g2"].pc = "inc_add"
  /\ channelRateLimitMutex = "g2"
  /\ channelRateLimitStore[ConcKey] # Nil
  /\ channelRateLimitStore[ConcKey].RPMCount = 1
  /\ rlHist.accMinute[MinuteKey(minuteNow)] = 3

C37_LabelsNeverMoveBack ==
  [][LET old == channelRateLimitStore[ConcKey]
         new == channelRateLimitStore'[ConcKey]
     IN (old # Nil /\ new # Nil) =>
          /\ new.LastMinuteKey >= old.LastMinuteKey
          /\ new.LastDayKey >= old.LastDayKey
          /\ (old.LastMinuteKey = MinuteKey(minuteNow) /\ old.RPMCount > 0) =>
                new.RPMCount >= old.RPMCount]_vars

\* two credentials that identify different users
DifferentUsers(a, b) ==
  \/ a.userId # b.userId
  \/ (a.userId = "" /\ b.userId = "" /\ a.email # b.email)

\* C38: the quota records of distinct callers are isolated: a debit
\* admitted for one credential never changes the record that decides the
\* requests, on any channel, of a credential that identifies another user
\* (another user id, or no user id and another e-mail).
C38_CallersIsolated ==
  [][(log'.op = "request" /\ log'.status = StatusOK
        /\ quotaStore' # quotaStore) =>
       \A t \in {TokU1, TokMailCarol, TokMailDave} :
         DifferentUsers(t, log'.tok) =>
           \A c \in ChannelIds :
             quotaStore'["quota:" \o t.userId \o
                         (IF c = "" THEN "" ELSE ":channel:" \o c)]
               = quotaStore["quota:" \o t.userId \o
                            (IF c = "" THEN "" ELSE ":channel:" \o c)]]_vars

\* C39: for every configuration given at initialisation whose store is
\* reachable, the enabled flag the status endpoint reports equals the flag
\* the middleware enforces: it reports enabled exactly when requests are not
\* rejected with ServiceUnavailable.
C39_StatusMatchesMiddleware ==
  /\ (log.op = "status" /\ RedisURL \notin {"redis://down", "redis://%bad"}) =>
        (log.enabled <=> Enabled)
  /\ (log.op = "request") =>
        (log.status = StatusServiceUnavailable <=> ~Enabled)

\* the class of a credential that is present, in the order of the claim
CredentialClass(tok) ==
  IF tok.segs # 3 \/ ~tok.dec THEN "malformed"
  ELSE IF tok.expKind = "num" /\ tok.exp < now THEN "expired"
  ELSE IF tok.userId = "" /\ tok.email = "" THEN "noidentity"
  ELSE ""

\* C32: identity resolution classifies a credential in a fixed order:
\* malformed when it has not three segments or its payload does not decode;
\* else expired when a numeric exp claim is earlier than now (no exp, and an
\* exp equal to now, are accepted); else missing identity when user id and
\* e-mail are both empty; else it succeeds and the user is looked up.
C32_ClassificationOrder ==
  (log.op = "request" /\ Enabled /\ ~log.tok.empty) =>
     IF CredentialClass(log.tok) # ""
     THEN /\ log.status = StatusUnauthorized
          /\ log.reason = CredentialClass(log.tok)
          /\ log.userReads = 0
     ELSE /\ log.reason \notin {"malformed", "expired", "noidentity"}
          /\ log.userReads = 1

\* a credential with an exp claim in the past and no identity, rejected as
\* expired
C32_Witness ==
  /\ log.op = "request"
  /\ Enabled
  /\ log.tok = TokExpNoIdentity
  /\ log.tok.exp < now
  /\ log.reason = "expired"

\* a credential whose exp claim equals the present second, accepted
C32_WitnessEqual ==
  /\ log.op = "request"
  /\ Enabled
  /\ log.tok = TokU1Exp
  /\ log.tok.exp = now
  /\ log.userReads = 1
  /\ log.next

\* C11: while the core is disabled every request is rejected with 503
\* whatever its credential and headers, no user record and no quota record
\* is read or written, the quota store is left as it was and the downstream
\* handler is not invoked.
C11_DisabledRejectsAll ==
  /\ [](log.op = "request" /\ ~Enabled =>
          /\ log.status = StatusServiceUnavailable
          /\ ~log.next
          /\ log.userReads = 0
          /\ log.quotaReads = 0
          /\ log.quotaWrites = 0)
  /\ [][log'.op = "request" /\ ~Enabled => quotaStore' = quotaStore]_vars

\* a disabled core rejected a well-formed credential of a stored user on a
\* channel with a positive limit
C11_Witness ==
  /\ log.op = "request"
  /\ ~Enabled
  /\ log.tok = TokU1
  /\ log.quotaLimit > 0
  /\ log.enabledHdr = ""
  /\ log.status = StatusServiceUnavailable

\* the last request's credential is absent, malformed, expired or names
\* neither a user id nor an e-mail
BadCredential ==
  /\ log.op = "request"
  /\ \/ log.tok.empty
     \/ log.tok.segs # 3
     \/ ~log.tok.dec
     \/ log.tok.expKind = "num" /\ log.tok.exp < now
     \/ log.tok.userId = "" /\ log.tok.email = ""

\* C12: an enabled core rejects every request whose bearer credential is
\* absent, malformed, expired or lacks both user id and e-mail with 401,
\* does not invoke the downstream handler, and reads and writes no quota
\* record.
C12_BadCredentialRejected ==
  /\ [](BadCredential /\ Enabled =>
          /\ log.status = StatusUnauthorized
          /\ ~log.next
          /\ log.quotaReads = 0
          /\ log.quotaWrites = 0)
  /\ [][BadCredential' /\ Enabled => quotaStore' = quotaStore]_vars

\* an enabled core rejected a three-segment credential whose payload does
\* not decode
C12_Witness ==
  /\ BadCredential
  /\ Enabled
  /\ log.tok = TokUndecodable
  /\ log.status = StatusUnauthorized
  /\ log.reason = "malformed"

\* the user the last request resolved to: the stored record, or the record
\* built from the claims when the lookup found nothing
ResolvedUser ==
  IF log.fallback
  THEN ExternalUserData(log.tok.userId, log.tok.email,
                        IF log.tok.email # "" THEN LocalPart(log.tok.email)
                        ELSE "", FALSE, 0)
  ELSE userStore[log.tok.userId]

\* the last request was resolved by an enabled core to a user who is
\* neither VIP nor the administrator
ResolvedStandard ==
  /\ log.op = "request"
  /\ Enabled
  /\ log.userReads = 1
  /\ ~(ResolvedUser.IsVIP /\ ResolvedUser.VIPExpiresAt > now)
  /\ ResolvedUser.Username # "admin"

\* C13: for a resolved standard user, when the channel's quota is disabled
\* or its limit is -1, the request is admitted, no quota record is read or
\* written, and the response is annotated status disabled (resp. unlimited),
\* used 0, total -1, remaining -1.
C13_DisabledOrUnlimited ==
  /\ [](ResolvedStandard /\ (log.enabledHdr = "false" \/ log.quotaLimit = -1) =>
          /\ log.status = StatusOK
          /\ log.next
          /\ log.quotaReads = 0
          /\ log.quotaWrites = 0
          /\ log.qstatus = IF log.enabledHdr = "false" THEN "disabled"
                           ELSE "unlimited"
          /\ log.used = 0
          /\ log.total = -1
          /\ log.remaining = -1)
  /\ [][ResolvedStandard' /\ (log'.enabledHdr = "false" \/ log'.quotaLimit = -1)
          => quotaStore' = quotaStore]_vars

\* a standard user whose stored count has reached 1 was admitted on a
\* channel with the limit -1
C13_Witness ==
  /\ ResolvedStandard
  /\ log.tok = TokU1
  /\ log.enabledHdr = ""
  /\ log.quotaLimit = -1
  /\ log.qstatus = "unlimited"
  /\ quotaStore[QuotaKey("u1", "")] # Nil
  /\ quotaStore[QuotaKey("u1", "")].UsedCount >= 1

\* C15: when the user lookup fails, the caller is resolved from the claims
\* and is classified standard whatever the claims hold: it is not annotated
\* as VIP and, on a channel with a positive limit, its quota record is read.
C15_FallbackIsStandard ==
  (log.op = "request" /\ log.fallback) =>
     /\ log.vip # "true"
     /\ log.qstatus # "vip"
     /\ (log.enabledHdr = "" /\ log.quotaLimit > 0) => log.quotaReads = 1

\* InitExternalUserAuth has run
Initialised == phase = "run"

\* C17: for one user and channel with limit L > 0, within one month and
\* without operator reset, with at most K requests in flight the number of
\* admitted requests never exceeds L + (K - 1).
C17_AdmittedWithinCeiling ==
  admitted <= MaxLimit + (MaxInFlight - 1)

\* C18: on the REST transport no set that met a network error or a non-2xx
\* status reports success, and no quota get that met a network error, a
\* non-2xx status or a malformed envelope yields a record on which the
\* request is admitted.
C18_TransportFailuresSurface ==
  /\ (/\ log.op = "setvip"
      /\ ~useLocalRedis
      /\ log.found
      /\ log.wresp \in {"neterr", "non200"}) => log.err
  /\ (/\ log.op = "request"
      /\ ~useLocalRedis
      /\ log.quotaReads = 1
      /\ log.qresp \in {"neterr", "errjson", "garbage"}) =>
        (log.status # StatusOK /\ log.quotaWrites = 0)

\* C19: after InitExternalUserAuth with a redis:// URL the core is enabled
\* exactly when the URL parsed and the probe succeeded; otherwise both
\* enabled flags are false and every request is rejected with 503; with
\* another URL the core is enabled exactly when URL and access credential
\* are both non-empty.
C19_InitEnables ==
  Initialised =>
     /\ HasRedisPrefix(RedisURL) => (Enabled <=> RedisURL = "redis://ok")
     /\ ~HasRedisPrefix(RedisURL) =>
           (Enabled <=> (RedisURL # "" /\ RedisToken # ""))
     /\ ExternalUserAuthEnabled = Enabled
     /\ (~Enabled /\ log.op = "request") =>
           (log.status = StatusServiceUnavailable /\ ~log.next)

\* a core whose probe failed at initialisation rejected a request of a
\* stored user
C19_Witness ==
  /\ Initialised
  /\ RedisURL = "redis://down"
  /\ ~Enabled
  /\ ~ExternalUserAuthEnabled
  /\ log.op = "request"
  /\ log.tok = TokU1
  /\ log.status = StatusServiceUnavailable

\* C20: a request rejected as QuotaExceeded writes nothing: the stored
\* quota records are the same before and after it, also when the record
\* read was of an earlier month and was rolled over before the comparison.
C20_RejectionWritesNothing ==
  /\ [][(log'.op = "request" /\ log'.status = StatusTooManyRequests) =>
          quotaStore' = quotaStore]_vars
  /\ [](log.op = "request" /\ log.status = StatusTooManyRequests =>
          log.quotaWrites = 0)

\* a rejection with the limit 0 that read a record of an earlier month: the
\* rolled-over count 0 was compared and the stale record is still stored
C20_Witness ==
  /\ log.op = "request"
  /\ log.status = StatusTooManyRequests
  /\ log.quotaLimit = 0
  /\ log.used = 0
  /\ StoredStale(QuotaKey(log.userId, log.channelId))
  /\ quotaStore[QuotaKey(log.userId, log.channelId)].UsedCount >= 1

(***************************************************************************)
(* Properties of the rate limiter run one call at a time (SpecRate).       *)
(***************************************************************************)
\* C5: with RPM limit R > 0 and the daily limit not reached, under
\* sequential check-then-increment cycles the first R cycles of a minute are
\* accepted, the next check of that minute is rejected citing count R and
\* limit R and does not increment, and the first cycle after the minute
\* label changes is accepted and leaves the minute count at 1.
C5_MinuteWindow ==
  (rlLog.op = "cycle" /\ rlHist.cyc >= 1) =>
     IF rlHist.cyc <= rlHist.R
     THEN /\ rlLog.allowed
          /\ channelRateLimitStore[rlLog.key].RPMCount = rlHist.cyc
          /\ channelRateLimitStore[rlLog.key].LastMinuteKey = MinuteKey(minuteNow)
     ELSE /\ ~rlLog.allowed
          /\ rlLog.axis = "rpm"
          /\ rlLog.count = rlHist.R
          /\ rlLog.limit = rlHist.R
          /\ ~rlLog.incremented
          /\ channelRateLimitStore[rlLog.key].RPMCount = rlHist.R

\* the first cycle of a later minute of the day, after MaxRate accepted ones
C5_Witness ==
  /\ rlLog.op = "cycle"
  /\ rlHist.cyc = 1
  /\ rlHist.R = MaxRate
  /\ rlLog.allowed
  /\ channelRateLimitStore[rlLog.key].RPMCount = 1
  /\ channelRateLimitStore[rlLog.key].RPDCount = MaxRate + 1
  /\ minuteNow > 0

\* the step is an operation that read or created the record of its key
Touches(l) ==
  /\ l.op \in {"check", "increment", "cycle"}
  /\ l.touched

IncrementOf(l) == IF l.incremented THEN 1 ELSE 0

\* what the first operation after a boundary leaves in the record
AfterBoundary ==
  (/\ Touches(rlLog')
   /\ channelRateLimitStore[rlLog'.key] # Nil
   /\ channelRateLimitStore[rlLog'.key].LastMinuteKey # MinuteKey(minuteNow))
  => LET old == channelRateLimitStore[rlLog'.key]
         new == channelRateLimitStore'[rlLog'.key]
     IN /\ new.RPMCount = IncrementOf(rlLog')
        /\ new.LastMinuteKey = MinuteKey(minuteNow)
        /\ new.LastDayKey = DayKey(minuteNow)
        /\ new.RPDCount = IF old.LastDayKey = DayKey(minuteNow)
                          THEN old.RPDCount + IncrementOf(rlLog')
                          ELSE IncrementOf(rlLog')

\* C6: the first operation on a rate record after a minute boundary within
\* the same day sets the minute count to 0 and leaves the day count
\* unchanged; the first operation after a day boundary sets both counts to
\* 0, in each case before the operation's own increment.
C6_Boundaries == [][AfterBoundary]_vars

\* a record rolled over within a day: minute count restarted, day count kept
C6_Witness ==
  /\ Touches(rlLog)
  /\ rlLog.op = "check"
  /\ minuteNow > 0
  /\ DayKey(minuteNow) = 0
  /\ channelRateLimitStore[rlLog.key] # Nil
  /\ channelRateLimitStore[rlLog.key].LastMinuteKey = MinuteKey(minuteNow)
  /\ channelRateLimitStore[rlLog.key].RPMCount = 0
  /\ channelRateLimitStore[rlLog.key].RPDCount > 0

\* the record of the last operation's key carries the current labels
CurrentLabels(info) ==
  /\ info.LastMinuteKey = MinuteKey(minuteNow)
  /\ info.LastDayKey = DayKey(minuteNow)

\* C21: a rejecting CheckChannelRateLimit made under the minute and day
\* labels the record already carries leaves the record's minute count and
\* day count as they were, and leaves every other record unchanged.
C21_RejectionKeepsCounts ==
  [][(rlLog'.op \in {"check", "cycle"} /\ ~rlLog'.allowed) =>
       /\ \A k \in RateKeys \ {rlLog'.key} :
             channelRateLimitStore'[k] = channelRateLimitStore[k]
       /\ (/\ channelRateLimitStore[rlLog'.key] # Nil
           /\ CurrentLabels(channelRateLimitStore[rlLog'.key])) =>
             /\ channelRateLimitStore'[rlLog'.key].RPMCount =
                  channelRateLimitStore[rlLog'.key].RPMCount
             /\ channelRateLimitStore'[rlLog'.key].RPDCount =
                  channelRateLimitStore[rlLog'.key].RPDCount
    ]_vars

\* a check rejected on the daily axis while the other key slot holds a
\* record with counts of its own
C21_Witness ==
  /\ rlLog.op = "check"
  /\ ~rlLog.allowed
  /\ rlLog.axis = "rpd"
  /\ rlLog.keyIndex = 0
  /\ channelRateLimitStore[rlLog.key].RPDCount >= 1
  /\ channelRateLimitStore[getChannelRateLimitKey(rlLog.channelID, 1)] # Nil
  /\ channelRateLimitStore[getChannelRateLimitKey(rlLog.channelID, 1)].RPDCount >= 1

\* C22: every info query (GetChannelRateLimitInfo, GetAllChannelRateLimitInfo,
\* GetChannelRateLimitInfoByChannelID) returns records whose minute and day
\* labels are the current ones, so that no count it reports belongs to a
\* window that is over.
C22_QueriesNormalise ==
  rlLog.op \in {"getinfo", "getall", "bychannel"} =>
    \A info \in rlLog.result : CurrentLabels(info)

\* C23: every read of a rate record's fields happens under the table lock:
\* no goroutine is at a comparison of the record's counts while another
\* goroutine holds the lock for writing and is changing the record.
C23_ReadsUnderLock ==
  \A g \in Goroutines :
    goroutine[g].pc \in {"compare_rpm", "compare_rpd"} =>
      channelRateLimitMutex \notin Goroutines \ {g}

\* C24: ResetChannelRateLimit(c, k) leaves the record of (c, k) absent and
\* every other record unchanged, so that the reset of an absent record
\* changes nothing; the next check or info query of (c, k) finds minute
\* count 0 and day count 0 under the current labels.
C24_ResetStartsFresh ==
  /\ [][rlLog'.op = "reset" =>
          /\ channelRateLimitStore'[rlLog'.key] = Nil
          /\ \A k \in RateKeys \ {rlLog'.key} :
                channelRateLimitStore'[k] = channelRateLimitStore[k]]_vars
  /\ [][(/\ rlLog.op = "reset"
          /\ (rlLog'.op = "getinfo" \/ (rlLog'.op = "check" /\ rlLog'.touched))
          /\ rlLog'.key = rlLog.key) =>
          /\ channelRateLimitStore'[rlLog'.key].RPMCount = 0
          /\ channelRateLimitStore'[rlLog'.key].RPDCount = 0
          /\ CurrentLabels(channelRateLimitStore'[rlLog'.key])
          /\ (rlLog'.op = "check" => rlLog'.allowed)]_vars

\* the reset of a key slot that held a record, while the other key slot of
\* the channel holds a record with counts of its own
C24_Witness ==
  /\ rlLog.op = "reset"
  /\ rlLog.touched
  /\ rlLog.keyIndex = 0
  /\ channelRateLimitStore[rlLog.key] = Nil
  /\ channelRateLimitStore[getChannelRateLimitKey(rlLog.channelID, 1)] # Nil
  /\ channelRateLimitStore[getChannelRateLimitKey(rlLog.channelID, 1)].RPMCount >= 1

\* the remaining budget of an axis as the record is to report it
ReportedRemaining(limit, count, remaining) ==
  /\ (remaining = -1) <=> (limit <= 0)
  /\ limit > 0 =>
       /\ remaining = IF limit - count > 0 THEN limit - count ELSE 0
       /\ 0 <= remaining
       /\ remaining <= limit

\* C28: a record returned by GetChannelRateLimitInfo reports on each axis
\* the remaining -1 exactly when the axis's limit is <= 0, and max(0, limit
\* - count) otherwise; its stored limits are those of the call.
C28_RemainingOfLimits ==
  rlLog.op = "getinfo" =>
    \A info \in rlLog.result :
      /\ info.RPMLimit = rlLog.rpmLimit
      /\ info.RPDLimit = rlLog.rpdLimit
      /\ ReportedRemaining(info.RPMLimit, info.RPMCount, info.RPMRemaining)
      /\ ReportedRemaining(info.RPDLimit, info.RPDCount, info.RPDRemaining)
      /\ channelRateLimitStore[rlLog.key] = info

\* a query with the RPM limit 1 and no daily limit of a record whose minute
\* count is 2 and that carried other limits before
C28_Witness ==
  /\ rlLog.op = "getinfo"
  /\ rlLog.rpmLimit = 1
  /\ rlLog.rpdLimit = 0
  /\ \E info \in rlLog.result :
       /\ info.RPMCount = 2
       /\ info.RPMRemaining = 0
       /\ info.RPDRemaining = -1

\* C25: the reset of all key slots of a multi-key channel is a sequence of
\* single-slot resets, each under a lock acquisition of its own: a turn of
\* the loop deletes the record of its slot and no other, the lock is free
\* between the turns, and the turns go through the slots in order.
C25_ResetAllBySlot ==
  /\ [][resetNext >= 0 /\ resetNext' # resetNext  =>
          /\ channelRateLimitStore'[getChannelRateLimitKey(ConcChannel, resetNext)] = Nil
          /\ \A k \in RateKeys \ {getChannelRateLimitKey(ConcChannel, resetNext)} :
                channelRateLimitStore'[k] = channelRateLimitStore[k]
          /\ resetNext' = IF resetNext + 1 < MultiKeySize THEN resetNext + 1
                          ELSE -1]_vars
  /\ [](resetNext >= 0 => channelRateLimitMutex = "")

\* a query between the turns of the loop that finds slot 0, already reset,
\* re-created by an increment with the counts 1, and slot 1, not yet reset,
\* with its old counts
C25_Witness ==
  /\ resetNext = 1
  /\ rlLog.op = "bychannel"
  /\ \E a \in rlLog.result, b \in rlLog.result :
       /\ a.KeyIndex = 0 /\ a.RPMCount = 1 /\ a.RPDCount = 1
       /\ b.KeyIndex = 1 /\ b.RPDCount = MaxRate

\* C26: CheckChannelRateLimit rejects exactly when the RPM limit is > 0 and
\* the normalised minute count has reached it, or the RPD limit is > 0 and
\* the normalised day count has reached it; when both hold it cites the
\* per-minute axis; the rejection carries the channel id, the key slot and
\* the count and limit of the axis it cites.
C26_RejectsIffOverLimit ==
  rlLog.op = "check" =>
    IF ~rlLog.touched
    THEN rlLog.allowed /\ rlLog.rpmLimit <= 0 /\ rlLog.rpdLimit <= 0
    ELSE LET info == channelRateLimitStore[rlLog.key]
             overMinute == rlLog.rpmLimit > 0 /\ info.RPMCount >= rlLog.rpmLimit
             overDay == rlLog.rpdLimit > 0 /\ info.RPDCount >= rlLog.rpdLimit
         IN /\ CurrentLabels(info)
            /\ info.ChannelID = rlLog.channelID
            /\ info.KeyIndex = rlLog.keyIndex
            /\ ~rlLog.allowed <=> (overMinute \/ overDay)
            /\ overMinute =>
                  /\ rlLog.axis = "rpm"
                  /\ rlLog.count = info.RPMCount
                  /\ rlLog.limit = rlLog.rpmLimit
            /\ (~overMinute /\ overDay) =>
                  /\ rlLog.axis = "rpd"
                  /\ rlLog.count = info.RPDCount
                  /\ rlLog.limit = rlLog.rpdLimit

\* a check rejected on the per-minute axis while the day count has reached
\* the daily limit too
C26_Witness ==
  /\ rlLog.op = "check"
  /\ ~rlLog.allowed
  /\ rlLog.axis = "rpm"
  /\ rlLog.rpdLimit > 0
  /\ channelRateLimitStore[rlLog.key].RPDCount >= rlLog.rpdLimit
  /\ channelRateLimitStore[rlLog.key].RPMCount > rlLog.rpmLimit

\* C7: with RPM limit 0 no check or cycle, whatever the RPD limit and the
\* counts, is rejected citing the per-minute axis; with RPD limit 0 none is
\* rejected citing the daily axis.
C7_ZeroDisablesAxis ==
  (rlLog.op \in {"check", "cycle"}) =>
     /\ rlLog.rpmLimit = 0 => rlLog.axis # "rpm"
     /\ rlLog.rpdLimit = 0 => rlLog.axis # "rpd"

\* a check with RPM limit 0 and a positive RPD limit allowed a record whose
\* minute count is positive
C7_Witness ==
  /\ rlLog.op = "check"
  /\ rlLog.rpmLimit = 0
  /\ rlLog.rpdLimit > 0
  /\ rlLog.allowed
  /\ channelRateLimitStore[rlLog.key].RPMCount > 0
  /\ channelRateLimitStore[rlLog.key].LastMinuteKey = MinuteKey(minuteNow)

(***************************************************************************)
(* Properties of concurrent requests (specification SpecRateConc).         *)
(***************************************************************************)
\* C8: under every interleaving of concurrent requests on one key, the
\* requests accepted under one minute label never exceed the RPM limit
\* R > 0, and those accepted under one day label never exceed the RPD limit.
C8_AcceptedWithinLimit ==
  /\ policy.rpm > 0 =>
       \A m \in DOMAIN rlHist.accMinute : rlHist.accMinute[m] <= policy.rpm
  /\ policy.rpd > 0 =>
       \A d \in DOMAIN rlHist.accDay : rlHist.accDay[d] <= policy.rpd

====
